---------------------------- MODULE Spec2Model ----------------------------
(***************************************************************************)
(* Model of the OrganizaAi back end: file intake (FileHandler and the      *)
(* legacy save_uploaded_file), the two receipt-analysis routes, the        *)
(* response parser and the receipt normalizer.                             *)
(*                                                                         *)
(* A Python str is a sequence of one-character strings, so that strip,     *)
(* replace, rsplit, lower and secure_filename are computed character by    *)
(* character.                                                              *)
(***************************************************************************)
EXTENDS Integers, Sequences, FiniteSets, TLC

VARIABLES
    \* --- one call of a save function (SpecSave) ---
    fs,          \* the regular files on disk: a set of resolved paths
    call,        \* the call being made: [fn, filename, uid, ts] (fn = "none" before)
    outcome,     \* what the call did: [kind, exc, path, name]
    \* --- concurrent FileHandler.delete_file calls (SpecDelete) ---
    disk,        \* [DelPaths -> {"none", "file", "dir"}]
    del,         \* [Deleters -> [pc, path, ret]]
    removedBy,   \* [DelPaths -> the deleters whose os.remove succeeded on it]
    \* --- the two receipt-analysis routes (SpecPipeline) ---
    uploads,     \* the regular files on disk, as fs
    clock,       \* datetime.now(), in seconds after ClockBase
    req,         \* [Reqs -> the request's inputs, position and response]
    \* --- ResponseParser.parse_llm_response (SpecParser) ---
    response,    \* the argument: [kind |-> "str" | "envelope" | "none", text]
    parsed,      \* the call's result: [state, exc, success, error, data, raw]
    \* --- ResponseParser._validate_receipt_data (SpecNorm) ---
    data,        \* the decoded JSON object handed to the normalizer
    validated,   \* the call's result: [state, exc, receipt]
    \* --- GeminiClient (SpecClassify, SpecVision) ---
    cls,         \* one classify_expense_category call: inputs, position, result
    vis,         \* one analyze_receipt_image call: inputs, position, result
    net,         \* the outbound requests sent to the provider, in order
    \* --- the users table and the /auth routes (SpecAuth, SpecUser) ---
    users,       \* the rows of table users: [id, email, password_hash, name]
    seq,         \* the last value of the table's SERIAL id sequence
    auth         \* [AuthReqs -> the request's inputs, position and response]

vars == <<fs, call, outcome, disk, del, removedBy, uploads, clock, req,
          response, parsed, data, validated, cls, vis, net, users, seq, auth>>

saveVars == <<fs, call, outcome>>
delVars == <<disk, del, removedBy>>
pipeVars == <<uploads, clock, req>>
parserVars == <<response, parsed>>
normVars == <<data, validated>>
llmVars == <<cls, vis, net>>
authVars == <<users, seq, auth>>

---------------------------------------------------------------------------
(* Python str operations *)

Last(s) == s[Len(s)]
Front(s) == SubSeq(s, 1, Len(s) - 1)

Contains(s, c) == \E i \in 1..Len(s) : s[i] = c

\* the index of the first / last occurrence of character c in s (c occurs in s)
FirstIndex(s, c) ==
    CHOOSE i \in 1..Len(s) : s[i] = c /\ \A j \in 1..(i - 1) : s[j] # c
LastIndex(s, c) ==
    CHOOSE i \in 1..Len(s) : s[i] = c /\ \A j \in (i + 1)..Len(s) : s[j] # c

\* s.split(c)
RECURSIVE SplitOn(_, _)
SplitOn(s, c) ==
    IF ~Contains(s, c) THEN <<s>>
    ELSE LET i == FirstIndex(s, c)
         IN  <<SubSeq(s, 1, i - 1)>> \o SplitOn(SubSeq(s, i + 1, Len(s)), c)

\* s.strip(chars), chars a set of characters
RECURSIVE LStrip(_, _)
LStrip(s, chars) ==
    IF s # <<>> /\ Head(s) \in chars THEN LStrip(Tail(s), chars) ELSE s
RECURSIVE RStrip(_, _)
RStrip(s, chars) ==
    IF s # <<>> /\ Last(s) \in chars THEN RStrip(Front(s), chars) ELSE s
Strip(s, chars) == RStrip(LStrip(s, chars), chars)

StartsWith(s, p) == Len(p) <= Len(s) /\ SubSeq(s, 1, Len(p)) = p
EndsWith(s, p) ==
    Len(p) <= Len(s) /\ SubSeq(s, Len(s) - Len(p) + 1, Len(s)) = p

\* s.replace(pat, ""): the occurrences of pat, left to right, not overlapping
RECURSIVE Remove(_, _)
Remove(s, pat) ==
    IF s = <<>> THEN <<>>
    ELSE IF StartsWith(s, pat) THEN Remove(SubSeq(s, Len(pat) + 1, Len(s)), pat)
    ELSE <<Head(s)>> \o Remove(Tail(s), pat)

\* s.replace(a, b) for single characters
ReplaceChar(s, a, b) == [i \in 1..Len(s) |-> IF s[i] = a THEN b ELSE s[i]]

\* sep.join(parts)
RECURSIVE Join(_, _)
Join(parts, sep) ==
    IF parts = <<>> THEN <<>>
    ELSE IF Len(parts) = 1 THEN parts[1]
    ELSE parts[1] \o sep \o Join(Tail(parts), sep)

\* the pieces of s.split(): split on runs of whitespace, no empty pieces
RECURSIVE NonEmpty(_)
NonEmpty(parts) ==
    IF parts = <<>> THEN <<>>
    ELSE IF Head(parts) = <<>> THEN NonEmpty(Tail(parts))
    ELSE <<Head(parts)>> \o NonEmpty(Tail(parts))
SplitWhitespace(s) == NonEmpty(SplitOn(s, " "))

RECURSIVE Filter(_, _)
Filter(s, keep) ==
    IF s = <<>> THEN <<>>
    ELSE IF Head(s) \in keep THEN <<Head(s)>> \o Filter(Tail(s), keep)
    ELSE Filter(Tail(s), keep)

\* c.lower() for an ASCII character
LowerChar(c) ==
    LET upper == <<"A", "B", "C", "D", "E", "F", "G", "H", "I", "J", "K", "L", "M",
                  "N", "O", "P", "Q", "R", "S", "T", "U", "V", "W", "X", "Y", "Z">>
        lower == <<"a", "b", "c", "d", "e", "f", "g", "h", "i", "j", "k", "l", "m",
                  "n", "o", "p", "q", "r", "s", "t", "u", "v", "w", "x", "y", "z">>
    IN  IF \E i \in 1..Len(upper) : upper[i] = c
        THEN lower[CHOOSE i \in 1..Len(upper) : upper[i] = c]
        ELSE c
Lower(s) == [i \in 1..Len(s) |-> LowerChar(s[i])]

Digit(n) ==
    CASE n = 0 -> "0" [] n = 1 -> "1" [] n = 2 -> "2" [] n = 3 -> "3"
      [] n = 4 -> "4" [] n = 5 -> "5" [] n = 6 -> "6" [] n = 7 -> "7"
      [] n = 8 -> "8" [] n = 9 -> "9"

\* str(n) for a natural number n
RECURSIVE StrOfNat(_)
StrOfNat(n) ==
    IF n < 10 THEN <<Digit(n)>> ELSE StrOfNat(n \div 10) \o <<Digit(n % 10)>>

---------------------------------------------------------------------------
(* FileHandler: src/app/services/file_handler.py *)

UPLOAD_DIR == <<"u", "p", "l", "o", "a", "d", "s">>

ALLOWED_EXTENSIONS ==
    { <<"p", "n", "g">>, <<"j", "p", "g">>, <<"j", "p", "e", "g">>,
      <<"p", "d", "f">> }

\* filename.rsplit('.', 1)[1], for a filename holding a dot
RSplitExt(filename) ==
    SubSeq(filename, LastIndex(filename, ".") + 1, Len(filename))

\* the slip filename.split('.')[1]: the text between the first two dots
allowed_file_split1(filename) ==
    Contains(filename, ".") /\ Lower(SplitOn(filename, ".")[2]) \in ALLOWED_EXTENSIONS

allowed_file(filename) ==
    Contains(filename, ".") /\ Lower(RSplitExt(filename)) \in ALLOWED_EXTENSIONS

\* werkzeug.utils.secure_filename on a POSIX host: path separators become
\* spaces, runs of whitespace become one "_", every character outside
\* [A-Za-z0-9_.-] is dropped, leading and trailing "." and "_" are stripped
SafeChars ==
    {"a", "b", "p", "n", "g", "j", "e", "d", "f", "x", "P", "N", "G", "J", "D",
     "F", "E", "0", "1", "2", "3", "4", "5", "6", "7", "8", "9", "_", ".", "-"}
secure_filename(filename) ==
    Strip(Filter(Join(SplitWhitespace(ReplaceChar(filename, "/", " ")), <<"_">>),
                 SafeChars),
          {".", "_"})

\* datetime.now().strftime('%Y%m%d_%H%M%S'), the clock t seconds (t < 60)
\* after ClockBase = 2024-01-01 10:00:00
Strftime(t) ==
    <<"2", "0", "2", "4", "0", "1", "0", "1", "_", "1", "0", "0", "0">>
    \o <<Digit(t \div 10), Digit(t % 10)>>

\* the slip of a name without the user id: f"{timestamp}_{original_filename}"
UniqueFilename_NoUid(filename, uid, t) ==
    Strftime(t) \o <<"_">> \o secure_filename(filename)

\* f"{user_id}_{timestamp}_{original_filename}"
UniqueFilename(filename, uid, t) ==
    StrOfNat(uid) \o <<"_">> \o Strftime(t) \o <<"_">> \o secure_filename(filename)

\* A resolved path is a sequence of components below the working directory.
UploadPath(name) == <<UPLOAD_DIR, name>>

Returned(path, name) ==
    [kind |-> "returned", exc |-> "", path |-> path, name |-> name]
Raised(exc) == [kind |-> "raised", exc |-> exc, path |-> <<>>, name |-> <<>>]
NoOutcome == [kind |-> "none", exc |-> "", path |-> <<>>, name |-> <<>>]

\* FileHandler.save_uploaded_file(file, user_id) at time t: what it returns or
\* raises, and the files on disk afterwards
save_uploaded_file(files, filename, uid, t) ==
    IF ~allowed_file(filename)
    THEN [out |-> Raised("ValueError"), files |-> files]
    ELSE LET name == UniqueFilename(filename, uid, t)
         IN  [out |-> Returned(UploadPath(name), name),
              files |-> files \cup {UploadPath(name)}]

---------------------------------------------------------------------------
(* the legacy save_uploaded_file: src/services/file_handler.py *)

\* The directories that exist: the working directory <<>>, uploads (made by
\* os.makedirs), the parent of the working directory and the root.
PARENT == <<"^">>
ROOT == <<"/">>
Dirs == { <<>>, <<UPLOAD_DIR>>, <<PARENT>>, <<ROOT>> }

ParentDir(d) ==
    IF d = <<>> THEN <<PARENT>>
    ELSE IF d = <<PARENT>> \/ d = <<ROOT>> THEN d
    ELSE Front(d)

\* the kernel's walk of the components of a path from directory d:
\* [ok |-> TRUE, path] for the file to open, or the OSError
RECURSIVE Walk(_, _)
Walk(d, comps) ==
    LET c == Head(comps)
    IN  IF Len(comps) = 1
        THEN IF c \in {<<>>, <<".">>, <<".", ".">>} \/ (d \o <<c>>) \in Dirs
             THEN [ok |-> FALSE, exc |-> "IsADirectoryError", path |-> <<>>]
             ELSE [ok |-> TRUE, exc |-> "", path |-> d \o <<c>>]
        ELSE IF c \in {<<>>, <<".">>} THEN Walk(d, Tail(comps))
        ELSE IF c = <<".", ".">> THEN Walk(ParentDir(d), Tail(comps))
        ELSE IF (d \o <<c>>) \in Dirs THEN Walk(d \o <<c>>, Tail(comps))
        ELSE [ok |-> FALSE, exc |-> "FileNotFoundError", path |-> <<>>]

\* os.path.join("uploads", filename) and open(file_path, "wb")
LegacyOpen(filename) ==
    IF filename # <<>> /\ Head(filename) = "/"
    THEN Walk(<<ROOT>>, SplitOn(Tail(filename), "/"))
    ELSE Walk(<<UPLOAD_DIR>>, SplitOn(filename, "/"))

legacy_save_uploaded_file(files, filename) ==
    LET o == LegacyOpen(filename)
    IN  IF o.ok
        THEN [out |-> Returned(o.path, Last(o.path)), files |-> files \cup {o.path}]
        ELSE [out |-> Raised(o.exc), files |-> files]

---------------------------------------------------------------------------
(* SpecSave: one call of a save function on any client-supplied filename *)

MaxUid == 2
MaxClock == 1

Stems ==
    { <<>>, <<"a">>, <<"a", ".", "b">>, <<".", ".", "/", "a">>, <<"/", "a">>,
      <<"x", "/", "a">>, <<"a", " ", "b">>, <<"$">> }
Suffixes ==
    { <<>>, <<".", "p", "n", "g">>, <<".", "P", "N", "G">>, <<".", "j", "p", "g">>,
      <<".", "J", "p", "e", "g">>, <<".", "p", "d", "f">>, <<".", "e", "x", "e">>,
      <<".">>, <<"p", "n", "g">>, <<".", "p", "n", "g", "x">>,
      <<".", "p", "n", "g", ".", "e", "x", "e">>, <<".", "p", "d", "f", "/">>,
      <<".", "p", "n", "g", " ">> }
FileNames == { st \o su : st \in Stems, su \in Suffixes }

NoCall == [fn |-> "none", filename |-> <<>>, uid |-> 0, ts |-> 0]

IdleSave == fs = {} /\ call = NoCall /\ outcome = NoOutcome

\* FileHandler.save_uploaded_file(file, user_id), file.filename = filename
CallSave(filename, uid, t) ==
    /\ call.fn = "none"
    /\ LET r == save_uploaded_file(fs, filename, uid, t)
       IN  /\ fs' = r.files
           /\ outcome' = r.out
    /\ call' = [fn |-> "save_uploaded_file", filename |-> filename,
                uid |-> uid, ts |-> t]
    /\ UNCHANGED <<delVars, pipeVars, parserVars, normVars, llmVars, authVars>>

\* the legacy save_uploaded_file(file, filename)
CallLegacySave(filename) ==
    /\ call.fn = "none"
    /\ LET r == legacy_save_uploaded_file(fs, filename)
       IN  /\ fs' = r.files
           /\ outcome' = r.out
    /\ call' = [fn |-> "legacy", filename |-> filename, uid |-> 0, ts |-> 0]
    /\ UNCHANGED <<delVars, pipeVars, parserVars, normVars, llmVars, authVars>>

---------------------------------------------------------------------------
(* SpecDelete: concurrent calls of FileHandler.delete_file *)

NDeleters == 2
Deleters == 1..NDeleters

DelPaths == { UploadPath(<<"a">>), UploadPath(<<"b">>) }

IdleDeleter == [pc |-> "idle", path |-> <<>>, existed |-> FALSE, ret |-> "none"]

IdleDelete ==
    /\ disk = [p \in DelPaths |-> "none"]
    /\ del = [d \in Deleters |-> IdleDeleter]
    /\ removedBy = [p \in DelPaths |-> {}]

\* os.path.exists(filepath)
PathExists(p) == disk[p] # "none"

\* os.remove(filepath): "" when the file was removed, else the OSError
OsRemove(p) ==
    CASE disk[p] = "file" -> ""
      [] disk[p] = "dir" -> "IsADirectoryError"
      [] OTHER -> "FileNotFoundError"

\* delete_file without its try/except: the OSError reaches the caller
delete_file_result_uncaught(err) == IF err = "" THEN "True" ELSE "raised"

\* what delete_file returns once os.remove ended with err ("" for none):
\* return True, or except Exception: return False
delete_file_result(err) == IF err = "" THEN "True" ELSE "False"

\* delete_file up to os.path.exists: return False when there is no such path
DeleteExists(d, p) ==
    /\ del[d].pc = "idle"
    /\ del' = [del EXCEPT ![d] =
                 IF PathExists(p)
                 THEN [pc |-> "remove", path |-> p, existed |-> TRUE, ret |-> "none"]
                 ELSE [pc |-> "done", path |-> p, existed |-> FALSE, ret |-> "False"]]
    /\ UNCHANGED <<disk, removedBy, saveVars, pipeVars, parserVars, normVars, llmVars, authVars>>

\* delete_file from os.remove to its return
DeleteRemove(d) ==
    /\ del[d].pc = "remove"
    /\ LET p == del[d].path
           err == OsRemove(p)
       IN  /\ disk' = IF err = "" THEN [disk EXCEPT ![p] = "none"] ELSE disk
           /\ removedBy' = IF err = "" THEN [removedBy EXCEPT ![p] = @ \cup {d}]
                            ELSE removedBy
           /\ del' = [del EXCEPT ![d] = [@ EXCEPT !.pc = "done",
                                                  !.ret = delete_file_result(err)]]
    /\ UNCHANGED <<saveVars, pipeVars, parserVars, normVars, llmVars, authVars>>

---------------------------------------------------------------------------
(* SpecPipeline: POST /ocr/analyze (src/app/routes/ocr.py) and              *)
(* POST /analisar-cupom (src/main.py), two requests in flight               *)

Reqs == {1, 2}

\* the filenames the clients of the routes send
PipeNames ==
    { <<>>, <<"a", ".", "p", "n", "g">>, <<"a", ".", "P", "D", "F">>,
      <<"a", ".", "e", "x", "e">>, <<"a">>,
      <<".", ".", "/", "a", ".", "p", "n", "g">> }

\* a response body: the keys it holds; arquivo and categoria are the values of
\* data.arquivo and data.categoria (<<>> when the body has none)
NoBody == [success |-> "absent", message |-> FALSE, error_kind |-> FALSE,
           erro |-> FALSE, arquivo |-> <<>>, categoria |-> <<>>]
\* {'success': False, 'message': ...}
FailureBody == [NoBody EXCEPT !.success = "false", !.message = TRUE]
\* {'success': True, 'message': ..., 'data': novo_gasto}
SuccessBody(name) ==
    [NoBody EXCEPT !.success = "true", !.message = TRUE, !.arquivo = name]
\* {"erro": str(e)}
ErroBody == [NoBody EXCEPT !.erro = TRUE]
\* the body a JWT error loader of create_app returns
JwtErrorBody == [NoBody EXCEPT !.success = "false", !.message = TRUE]

IdleReq ==
    [route |-> "none", pc |-> "idle", token |-> "none", userExists |-> FALSE,
     uid |-> 0, hasFile |-> FALSE, filename |-> <<>>, status |-> 0,
     body |-> NoBody, stored |-> <<>>, failed |-> "none"]

IdlePipeline ==
    /\ uploads = {}
    /\ clock = 0
    /\ req = [r \in Reqs |-> IdleReq]

Respond(rq, status, body) ==
    [rq EXCEPT !.pc = "done", !.status = status, !.body = body]

\* the slip of a post without the inner except ValueError: the outer except
\* Exception answers 500
AnalyzePostResult_uncaught(rq, files, t) ==
    IF rq.token # "valid"
    THEN [rq |-> Respond(rq, 401, JwtErrorBody), files |-> files]
    ELSE IF ~rq.hasFile \/ rq.filename = <<>>
    THEN [rq |-> Respond(rq, 400, FailureBody), files |-> files]
    ELSE IF ~rq.userExists
    THEN [rq |-> Respond(rq, 401, FailureBody), files |-> files]
    ELSE LET r == save_uploaded_file(files, rq.filename, rq.uid, t)
         IN  IF r.out.kind = "raised"
             THEN [rq |-> Respond(rq, 500, FailureBody), files |-> files]
             ELSE [rq |-> [rq EXCEPT !.pc = "processing", !.stored = r.out.path],
                   files |-> r.files]

\* AnalyzeCoupon.post from @jwt_required() to the return of
\* FileHandler.save_uploaded_file
AnalyzePostResult(rq, files, t) ==
    IF rq.token # "valid"
    THEN [rq |-> Respond(rq, 401, JwtErrorBody), files |-> files]
    ELSE IF ~rq.hasFile
    THEN [rq |-> Respond(rq, 400, FailureBody), files |-> files]
    ELSE IF rq.filename = <<>>
    THEN [rq |-> Respond(rq, 400, FailureBody), files |-> files]
    ELSE IF ~rq.userExists
    THEN [rq |-> Respond(rq, 401, FailureBody), files |-> files]
    ELSE LET r == save_uploaded_file(files, rq.filename, rq.uid, t)
         IN  IF r.out.kind = "raised"
             THEN [rq |-> Respond(rq, 400, FailureBody), files |-> files]
             ELSE [rq |-> [rq EXCEPT !.pc = "processing", !.stored = r.out.path],
                   files |-> r.files]

\* a POST /ocr/analyze request arrives and runs up to the stored upload
AnalyzePost(r, token, userExists, uid, hasFile, filename) ==
    /\ req[r].pc = "idle"
    /\ LET rq == [IdleReq EXCEPT !.route = "analyze", !.token = token,
                      !.userExists = userExists, !.uid = uid,
                      !.hasFile = hasFile, !.filename = filename]
           res == AnalyzePostResult(rq, uploads, clock)
       IN  /\ req' = [req EXCEPT ![r] = res.rq]
           /\ uploads' = res.files
    /\ UNCHANGED <<clock, saveVars, delVars, parserVars, normVars, llmVars, authVars>>

\* AnalyzeCoupon.post after time.sleep(1.5): the mocked expense is returned
AnalyzeRespond(r) ==
    /\ req[r].route = "analyze" /\ req[r].pc = "processing"
    /\ req' = [req EXCEPT ![r] = Respond(@, 200, SuccessBody(Last(@.stored)))]
    /\ UNCHANGED <<uploads, clock, saveVars, delVars, parserVars, normVars, llmVars, authVars>>

\* analisar_cupom: file_path = save_uploaded_file(file, file.filename)
AnalisarSaveResult(rq, files) ==
    LET r == legacy_save_uploaded_file(files, rq.filename)
    IN  IF r.out.kind = "raised"
        THEN [rq |-> Respond([rq EXCEPT !.failed = "save"], 500, ErroBody),
              files |-> files]
        ELSE [rq |-> [rq EXCEPT !.pc = "vision", !.stored = r.out.path],
              files |-> r.files]

\* a POST /analisar-cupom request arrives and stores its upload
AnalisarCupom(r, filename) ==
    /\ req[r].pc = "idle"
    /\ LET rq == [IdleReq EXCEPT !.route = "analisar", !.hasFile = TRUE,
                      !.filename = filename]
           res == AnalisarSaveResult(rq, uploads)
       IN  /\ req' = [req EXCEPT ![r] = res.rq]
           /\ uploads' = res.files
    /\ UNCHANGED <<clock, saveVars, delVars, parserVars, normVars, llmVars, authVars>>

\* what the provider call of the legacy analyze_receipt_image can end with
VisionOutcomes == {"ok", "HTTPError", "ConnectionError", "FileNotFoundError"}

\* analisar_cupom after the legacy analyze_receipt_image ended with o:
\* the except branch answers 500 and returns
AnalisarAfterVision(rq, o) ==
    IF o = "ok" THEN [rq EXCEPT !.pc = "parse"]
    ELSE Respond([rq EXCEPT !.failed = "vision"], 500, ErroBody)

\* llm_response = analyze_receipt_image(file_path); open(image_path) raises
\* FileNotFoundError exactly when the stored file is gone
AnalisarVision(r, o) ==
    /\ req[r].route = "analisar" /\ req[r].pc = "vision"
    /\ (o = "FileNotFoundError") <=> (req[r].stored \notin uploads)
    /\ req' = [req EXCEPT ![r] = AnalisarAfterVision(@, o)]
    /\ UNCHANGED <<uploads, clock, saveVars, delVars, parserVars, normVars, llmVars, authVars>>

\* parse_llm_response of services.parser returns a result, {"success": True,
\* ...} or {"success": False, ...}, and never raises
LegacyParseResults == {"true", "false"}

\* structured_data = parse_llm_response(llm_response); the route answers 200
\* with the result
AnalisarParse(r, success) ==
    /\ req[r].route = "analisar" /\ req[r].pc = "parse"
    /\ req' = [req EXCEPT ![r] =
                 Respond(@, 200, [NoBody EXCEPT !.success = success])]
    /\ UNCHANGED <<uploads, clock, saveVars, delVars, parserVars, normVars, llmVars, authVars>>

\* a second passes
Tick ==
    /\ clock < MaxClock
    /\ clock' = clock + 1
    /\ UNCHANGED <<uploads, req, saveVars, delVars, parserVars, normVars, llmVars, authVars>>

---------------------------------------------------------------------------
(* ResponseParser: src/app/services/parser.py *)

\* --- json.loads on the texts over the alphabet below: objects, strings and
\* the numbers written with the digit 1; whitespace is " " and "\n" ---

WS == {" ", "\n"}
SkipWs(s) == LStrip(s, WS)

JFail == [ok |-> FALSE, val |-> <<"none">>, rest |-> <<>>]
JOk(val, rest) == [ok |-> TRUE, val |-> val, rest |-> rest]

\* py_scanstring, s after the opening quote: up to the next quote; a control
\* character (the newline) in the string is an error (strict mode)
ScanString(s) ==
    IF ~Contains(s, "\"") THEN JFail
    ELSE LET i == FirstIndex(s, "\"")
             body == SubSeq(s, 1, i - 1)
         IN  IF Contains(body, "\n") THEN JFail
             ELSE JOk(<<"str", body>>, SubSeq(s, i + 1, Len(s)))

\* the number at the head of s: the value of 1, 11, 111, ... is kept as the
\* count of its digits
ScanNumber(s) ==
    LET rest == LStrip(s, {"1"})
    IN  JOk(<<"num", Len(s) - Len(rest)>>, rest)

\* dict[key] = value
DictSet(d, key, value) ==
    [k \in (DOMAIN d) \cup {key} |-> IF k = key THEN value ELSE d[k]]
EmptyDict == [k \in {} |-> <<"none">>]

RECURSIVE ScanValue(_)
RECURSIVE ScanMembers(_, _)

\* JSONObject, s at the opening quote of a member's key, d the members so far
ScanMembers(s, d) ==
    IF s = <<>> \/ Head(s) # "\"" THEN JFail
    ELSE LET key == ScanString(Tail(s))
         IN  IF ~key.ok THEN JFail
             ELSE LET afterKey == SkipWs(key.rest)
                  IN  IF afterKey = <<>> \/ Head(afterKey) # ":" THEN JFail
                      ELSE LET v == ScanValue(SkipWs(Tail(afterKey)))
                           IN  IF ~v.ok THEN JFail
                               ELSE LET d2 == DictSet(d, key.val[2], v.val)
                                        after == SkipWs(v.rest)
                                    IN  IF after = <<>> THEN JFail
                                        ELSE IF Head(after) = "}"
                                        THEN JOk(<<"obj", d2>>, Tail(after))
                                        ELSE IF Head(after) = ","
                                        THEN ScanMembers(SkipWs(Tail(after)), d2)
                                        ELSE JFail

\* scan_once
ScanValue(s) ==
    IF s = <<>> THEN JFail
    ELSE IF Head(s) = "\"" THEN ScanString(Tail(s))
    ELSE IF Head(s) = "1" THEN ScanNumber(s)
    ELSE IF Head(s) = "{"
    THEN LET inner == SkipWs(Tail(s))
         IN  IF inner # <<>> /\ Head(inner) = "}"
             THEN JOk(<<"obj", EmptyDict>>, Tail(inner))
             ELSE ScanMembers(inner, EmptyDict)
    ELSE JFail

\* json.loads(text): the value, or JSONDecodeError (also for extra data)
JsonLoads(text) ==
    LET v == ScanValue(SkipWs(text))
    IN  IF v.ok /\ SkipWs(v.rest) = <<>> THEN v ELSE JFail

\* --- parse_llm_response ---

\* one-character strings standing for the backtick and the apostrophe
BACKTICK == "<backtick>"
APOS == "<apostrophe>"
FENCE == <<BACKTICK, BACKTICK, BACKTICK>>
JSON_TAG == <<"j", "s", "o", "n", "\n">>
FENCE_END == <<"\n", BACKTICK, BACKTICK, BACKTICK>>

CleanFence_NoTag(text) == Remove(Strip(text, {BACKTICK}), FENCE_END)

\* response.strip(BACKTICK).replace("json\n", "").replace("\n" + FENCE, "")
CleanFence(text) == Remove(Remove(Strip(text, {BACKTICK}), JSON_TAG), FENCE_END)

ParseRaised(exc) ==
    [state |-> "raised", exc |-> exc, success |-> FALSE, error |-> "",
     data |-> <<"none">>, raw |-> [kind |-> "none", text |-> <<>>]]
ParseSuccess(val, content) ==
    [state |-> "returned", exc |-> "", success |-> TRUE, error |-> "",
     data |-> val, raw |-> [kind |-> "str", text |-> content]]
ParseFailure(error, raw) ==
    [state |-> "returned", exc |-> "", success |-> FALSE, error |-> error,
     data |-> <<"none">>, raw |-> raw]

\* ResponseParser.parse_llm_response(response). A str argument has strip and
\* no get: its JSONDecodeError handler raises AttributeError. A dict argument
\* (the envelope) has no strip: AttributeError, caught by except Exception.
parse_llm_response(resp) ==
    IF resp.kind = "str"
    THEN LET content == CleanFence(resp.text)
             v == JsonLoads(content)
         IN  IF v.ok THEN ParseSuccess(v.val, content)
             ELSE ParseRaised("AttributeError")
    ELSE ParseFailure("Erro ao processar resposta", resp)

\* the texts a completion can be: every short text, the rendered objects,
\* near-JSON, and each of them inside a markdown fence
MaxTextLen == 3
MaxMembers == 2

TextChars == {"{", "}", "\"", ":", "1", APOS, BACKTICK, "\n"}

RECURSIVE TextsUpTo(_)
TextsUpTo(n) ==
    IF n = 0 THEN {<<>>}
    ELSE LET shorter == TextsUpTo(n - 1)
         IN  shorter \cup {t \o <<c>> : t \in shorter, c \in TextChars}

Quoted(s) == <<"\"">> \o s \o <<"\"">>
KeyTexts == { Quoted(<<"k">>), Quoted(<<"j", "s", "o", "n">>) }
ValueTexts ==
    { <<"1">>, Quoted(<<"j", "s", "o", "n">>), Quoted(<<BACKTICK>>),
      <<"{", "}">>, <<"{", "\"", "k", "\"", ":", "1", "}">>,
      <<APOS, "k", APOS>> }
Gaps == { <<>>, <<" ">>, <<"\n">> }

RECURSIVE MemberLists(_)
MemberLists(n) ==
    IF n = 0 THEN {<<>>}
    ELSE LET shorter == MemberLists(n - 1)
         IN  shorter \cup {ms \o <<<<k, v>>>> : ms \in shorter,
                                                k \in KeyTexts, v \in ValueTexts}

RenderMembers(ms, gap) ==
    Join([i \in 1..Len(ms) |-> ms[i][1] \o <<":">> \o gap \o ms[i][2]],
         <<",">> \o gap)
RenderObject(ms, gap) == <<"{">> \o gap \o RenderMembers(ms, gap) \o gap \o <<"}">>

ObjectTexts == { RenderObject(ms, gap) : ms \in MemberLists(MaxMembers), gap \in Gaps }

NearJson ==
    { <<"{", "k", ":", " ", APOS, "k", APOS, "}">>,
      <<"{", APOS, "k", APOS, ":", "1", "}">>,
      <<"{", "\"", "k", "\"", ":", "1", ",", "}">>,
      <<"{", "\"", "k", "\"", ":", "1", "}", "}">>,
      <<"o", "k", " ", "{", "}">> }

PlainTexts == TextsUpTo(MaxTextLen) \cup ObjectTexts \cup NearJson

\* FENCE json \n X \n FENCE
Wrap(x) == FENCE \o JSON_TAG \o x \o FENCE_END
\* FENCE \n X \n FENCE, and Wrap(X) followed by a newline
WrapBare(x) == FENCE \o <<"\n">> \o x \o FENCE_END
WrapNewline(x) == Wrap(x) \o <<"\n">>

Texts ==
    PlainTexts \cup {Wrap(x) : x \in PlainTexts}
        \cup {WrapBare(x) : x \in ObjectTexts}
        \cup {WrapNewline(x) : x \in ObjectTexts}

NoParse == ParseRaised("")

IdleParser ==
    /\ response = [kind |-> "none", text |-> <<>>]
    /\ parsed = [NoParse EXCEPT !.state = "none"]

\* the caller hands the completion to the parser
Parse ==
    /\ response.kind # "none" /\ parsed.state = "none"
    /\ parsed' = parse_llm_response(response)
    /\ UNCHANGED <<response, saveVars, delVars, pipeVars, normVars, llmVars, authVars>>

---------------------------------------------------------------------------
(* ResponseParser._validate_receipt_data: src/app/services/parser.py *)

\* A decoded JSON value in a field: t is its type, n the value of a number
\* (or of a bool, or the length of a list or dict), s the text of a string.
\* Absent is the key missing from the dict.
Absent == [t |-> "absent", n |-> 0, s |-> ""]
Null == [t |-> "null", n |-> 0, s |-> ""]
Num(n) == [t |-> "num", n |-> n, s |-> ""]
Str(s) == [t |-> "str", n |-> 0, s |-> s]
ListOf(n) == [t |-> "list", n |-> n, s |-> ""]

\* float(s) and int(s) on the strings of the model
FloatStrings == {"12", "1.0"}
IntStrings == {"12"}
NumberOfString(s) == IF s = "12" THEN 12 ELSE 1

\* d.get(key): the value, or None
Get(v) == IF v.t = "absent" THEN Null ELSE v
\* d.get(key, default)
GetOr(v, default) == IF v.t = "absent" THEN default ELSE v

\* bool(v)
Truthy(v) ==
    CASE v.t \in {"absent", "null"} -> FALSE
      [] v.t = "str" -> v.s # ""
      [] OTHER -> v.n # 0
\* a or b
Or(a, b) == IF Truthy(a) THEN a ELSE b

Value(n) == [ok |-> TRUE, exc |-> "", n |-> n]
Error(exc) == [ok |-> FALSE, exc |-> exc, n |-> 0]

\* float(v)
Float(v) ==
    CASE v.t \in {"num", "bool"} -> Value(v.n)
      [] v.t = "str" -> IF v.s \in FloatStrings THEN Value(NumberOfString(v.s))
                        ELSE Error("ValueError")
      [] OTHER -> Error("TypeError")
\* int(v)
Int_(v) ==
    CASE v.t \in {"num", "bool"} -> Value(v.n)
      [] v.t = "str" -> IF v.s \in IntStrings THEN Value(NumberOfString(v.s))
                        ELSE Error("ValueError")
      [] OTHER -> Error("TypeError")

\* A raw item: a JSON object with these keys, or (obj = FALSE) another value.
RawItem(nome, quantidade, valor_unitario, valor_total, valor) ==
    [obj |-> TRUE, nome |-> nome, quantidade |-> quantidade,
     valor_unitario |-> valor_unitario, valor_total |-> valor_total,
     valor |-> valor]
NonObject == [RawItem(Absent, Absent, Absent, Absent, Absent) EXCEPT !.obj = FALSE]

\* float(item.get("valor_total", 0) or item.get("valor", 0))
ItemValor(item) ==
    Float(Or(GetOr(item.valor_total, Num(0)), GetOr(item.valor, Num(0))))

\* the body of the try for one item: the validated item (src is its index in
\* the input, kept for the properties), or the exception float or int raised
ValidateItem(item, src) ==
    LET valor == ItemValor(item)
        quantidade == Int_(GetOr(item.quantidade, Num(1)))
        valor_unitario == Float(GetOr(item.valor_unitario, Num(valor.n)))
    IN  IF ~item.obj THEN [kind |-> "raised", exc |-> "AttributeError"]
        ELSE IF ~valor.ok THEN [kind |-> "dropped", exc |-> valor.exc]
        ELSE IF ~quantidade.ok THEN [kind |-> "dropped", exc |-> quantidade.exc]
        ELSE IF ~valor_unitario.ok THEN [kind |-> "dropped", exc |-> valor_unitario.exc]
        ELSE [kind |-> "kept", exc |-> "",
              item |-> [nome |-> GetOr(item.nome, Str("Item desconhecido")),
                        quantidade |-> quantidade.n,
                        valor_unitario |-> valor_unitario.n,
                        valor_total |-> valor.n, src |-> src]]

\* the for loop from item i on: [exc, itens, total]; an exception other than
\* ValueError and TypeError leaves the loop and the function
RECURSIVE ValidateItems(_, _, _, _)
ValidateItems(items, i, itens, total) ==
    IF i > Len(items) THEN [exc |-> "", itens |-> itens, total |-> total]
    ELSE LET r == ValidateItem(items[i], i)
         IN  IF r.kind = "raised" THEN [exc |-> r.exc, itens |-> itens, total |-> total]
             ELSE IF r.kind = "dropped" THEN ValidateItems(items, i + 1, itens, total)
             ELSE ValidateItems(items, i + 1, Append(itens, r.item),
                                total + r.item.valor_total)

\* for item in items: what iterating data.get("itens", []) gives. None and a
\* number are not iterable; a str gives its characters and a dict its keys,
\* which are not objects.
IterItems(itens) ==
    CASE itens.t = "absent" -> [ok |-> TRUE, items |-> <<>>]
      [] itens.t = "list" -> [ok |-> TRUE, items |-> itens.items]
      [] itens.t \in {"str", "dict"} ->
             [ok |-> TRUE, items |-> [i \in 1..itens.n |-> NonObject]]
      [] OTHER -> [ok |-> FALSE, items |-> <<>>]

\* "Não identificado", written in ASCII
NAO_IDENTIFICADO == Str("Nao identificado")
\* "Não Classificado", written in ASCII
NAO_CLASSIFICADO == Str("Nao Classificado")

NormRaised(exc) == [state |-> "done", exc |-> exc, receipt |-> <<>>]
NormReturned(receipt) == [state |-> "done", exc |-> "", receipt |-> receipt]

\* float(data.get("valor_total", total) or total)
ReceiptTotal(valor_total, total) ==
    Float(Or(GetOr(valor_total, Num(total)), Num(total)))

\* ResponseParser._validate_receipt_data(data)
validate_receipt_data(d) ==
    LET it == IterItems(d.itens)
        loop == ValidateItems(it.items, 1, <<>>, 0)
        valor_total == ReceiptTotal(d.valor_total, loop.total)
    IN  IF ~it.ok THEN NormRaised("TypeError")
        ELSE IF loop.exc # "" THEN NormRaised(loop.exc)
        ELSE IF ~valor_total.ok THEN NormRaised(valor_total.exc)
        ELSE NormReturned(
                 [loja |-> Or(Get(d.loja), NAO_IDENTIFICADO),
                  data_compra |-> Or(Get(d.data_compra), Null),
                  itens |-> loop.itens,
                  valor_total |-> valor_total.n,
                  forma_pagamento |-> Or(Get(d.forma_pagamento), NAO_IDENTIFICADO),
                  categoria |-> Or(Get(d.categoria), NAO_CLASSIFICADO),
                  texto_bruto |-> Or(Get(d.texto_bruto), Str(""))])

\* --- the decoded objects the normalizer is given ---

MaxItems == 2

\* {"nome": "Item", "quantidade": 2, "valor_unitario": 15, "valor_total": 30}
BaseItem == RawItem(Str("Item"), Num(2), Num(15), Num(30), Absent)

RawItems ==
    { BaseItem, NonObject,
      RawItem(Absent, Absent, Absent, Num(20), Absent),
      RawItem(Str("Item"), Absent, Absent, Absent, Num(10)) }
    \cup { [BaseItem EXCEPT !.valor_total = v] :
              v \in {Null, Num(0), Str("n/a"), Str("12"), ListOf(1)} }
    \cup { [BaseItem EXCEPT !.quantidade = v] :
              v \in {Null, Num(0), Num(-1), Str("x"), Str("1.0")} }
    \cup { [BaseItem EXCEPT !.valor_unitario = v] : v \in {Null, Str("n/a")} }

RECURSIVE ItemLists(_)
ItemLists(n) ==
    IF n = 0 THEN {<<>>}
    ELSE LET shorter == ItemLists(n - 1)
         IN  shorter \cup {Append(l, i) : l \in shorter, i \in RawItems}

Itens(t, n, items) == [t |-> t, n |-> n, items |-> items]
ItensValues ==
    { Itens("absent", 0, <<>>), Itens("null", 0, <<>>), Itens("num", 5, <<>>),
      Itens("str", 0, <<>>), Itens("str", 2, <<>>), Itens("dict", 1, <<>>) }
    \cup { Itens("list", Len(l), l) : l \in ItemLists(MaxItems) }

TotalValues ==
    { Absent, Null, Num(0), Num(100), Str("n/a"), Str("12"), Str(""), ListOf(1) }

FieldValues == { Absent, Null, Str(""), Str("X") }
CategoriaValues == { Absent, Null, Str("Food"), Str("Outros") }

DataOf(loja, data_compra, forma_pagamento, categoria, texto_bruto, valor_total, itens) ==
    [loja |-> loja, data_compra |-> data_compra,
     forma_pagamento |-> forma_pagamento, categoria |-> categoria,
     texto_bruto |-> texto_bruto, valor_total |-> valor_total, itens |-> itens]

\* every combination of the text fields over a receipt of one item, and every
\* list of items and total under the text fields all missing or all given
DataInputs ==
    { DataOf(l, dc, fp, c, tb, vt, Itens("list", 1, <<BaseItem>>)) :
          l \in FieldValues, dc \in FieldValues, fp \in FieldValues,
          c \in CategoriaValues, tb \in FieldValues, vt \in {Absent, Num(100)} }
    \cup { DataOf(f, f, f, Null, f, vt, it) :
              f \in {Absent, Str("X")}, vt \in TotalValues, it \in ItensValues }

NoData == DataOf(Absent, Absent, Absent, Absent, Absent, Absent, Itens("absent", 0, <<>>))

IdleNorm ==
    /\ data = [state |-> "none", d |-> NoData]
    /\ validated = [state |-> "none", exc |-> "", receipt |-> <<>>]

\* the caller hands the decoded object to the normalizer
Validate ==
    /\ data.state = "given" /\ validated.state = "none"
    /\ validated' = validate_receipt_data(data.d)
    /\ UNCHANGED <<data, saveVars, delVars, pipeVars, parserVars, llmVars, authVars>>

---------------------------------------------------------------------------
(* GeminiClient.classify_expense_category: src/app/services/llm_client.py *)

\* an element of items: a dict whose 'nome' is absent, None, a str (s) or a
\* number, or (obj = FALSE) a value that is no dict
ClsItem(obj, t, s) == [obj |-> obj, t |-> t, s |-> s]

\* items[:10]
PROMPT_ITEMS == 10
\* the slip items[:] in place of items[:10]
Take_all(s, n) == s
Take(s, n) == SubSeq(s, 1, IF Len(s) < n THEN Len(s) ELSE n)

\* if item.get('nome'): the name is a non-empty str or a non-zero number
HasNome(item) == item.t = "num" \/ (item.t = "str" /\ item.s # <<>>)

\* [item.get('nome', '') for item in items[:10] if item.get('nome')] and the
\* join: the names of the prompt, or the exception raised (item.get on a value
\* that is no dict, str.join on a name that is no str)
PromptNames(items) ==
    LET first == Take(items, PROMPT_ITEMS)
        named == SelectSeq(first, HasNome)
    IN  IF \E i \in 1..Len(first) : ~first[i].obj
        THEN [exc |-> "AttributeError", names |-> <<>>]
        ELSE IF \E i \in 1..Len(named) : named[i].t # "str"
        THEN [exc |-> "TypeError", names |-> <<>>]
        ELSE [exc |-> "", names |-> [i \in 1..Len(named) |-> named[i].s]]

WHITESPACE == {" ", "\n", "\t"}

\* sub in s
Occurs(sub, s) ==
    \E i \in 1..(Len(s) - Len(sub) + 1) : SubSeq(s, i, i + Len(sub) - 1) = sub

FOOD == <<"F", "o", "o", "d">>
TRANSPORT == <<"T", "r", "a", "n", "s", "p", "o", "r", "t">>
UTILITY == <<"U", "t", "i", "l", "i", "t", "y">>
ENTERTAINMENT == <<"E", "n", "t", "e", "r", "t", "a", "i", "n", "m", "e", "n", "t">>
VALID_CATEGORIES == <<FOOD, TRANSPORT, UTILITY, ENTERTAINMENT>>

\* the slip of a search that keeps the case of the answer
CategoryOf_CaseSensitive(category) ==
    LET clean == Strip(Strip(Strip(category, WHITESPACE), {"."}), WHITESPACE)
        found == {i \in 1..Len(VALID_CATEGORIES) :
                     Occurs(VALID_CATEGORIES[i], category)}
    IN  IF \E i \in 1..Len(VALID_CATEGORIES) : VALID_CATEGORIES[i] = clean
        THEN clean
        ELSE IF found # {}
        THEN VALID_CATEGORIES[CHOOSE i \in found : \A j \in found : i <= j]
        ELSE UTILITY

\* the validation of the returned category: the cleaned answer if it is a valid
\* category, else the first valid category found in the answer without case,
\* else Utility
CategoryOf(category) ==
    LET clean == Strip(Strip(Strip(category, WHITESPACE), {"."}), WHITESPACE)
        found == {i \in 1..Len(VALID_CATEGORIES) :
                     Occurs(Lower(VALID_CATEGORIES[i]), Lower(category))}
    IN  IF \E i \in 1..Len(VALID_CATEGORIES) : VALID_CATEGORIES[i] = clean
        THEN clean
        ELSE IF found # {}
        THEN VALID_CATEGORIES[CHOOSE i \in found : \A j \in found : i <= j]
        ELSE UTILITY

ClsReturned(c, category) == [c EXCEPT !.pc = "done", !.ret = category]
ClsRaised(c, exc) == [c EXCEPT !.pc = "done", !.exc = exc]

\* classify_expense_category up to the provider call: the early returns, the
\* exceptions of the prompt's construction, or the prompt ready to send
ClassifyEnterResult(c) ==
    LET p == PromptNames(c.items)
    IN  IF (~c.apiKey /\ ~c.appCreds) \/ c.items = <<>>
        THEN ClsReturned(c, UTILITY)
        ELSE IF p.exc # "" THEN ClsRaised(c, p.exc)
        ELSE IF Strip(Join(p.names, <<",", " ">>), WHITESPACE) = <<>>
        THEN ClsReturned(c, UTILITY)
        ELSE [c EXCEPT !.pc = "request", !.names = p.names]

\* what the provider call ends with: an exception of the call (timeout,
\* connection failure, HTTP error status, any other), or an answer that is a
\* text or, when the provider's JSON holds none, None
ClsFailures == {"Timeout", "ConnectionError", "HTTPError", "Exception"}
ClsOutcome(fail, t, s) == [fail |-> fail, t |-> t, s |-> s]

\* classify_expense_category after the provider call. The SDK branch reads and
\* strips the answer inside its try; the REST branch reads it inside the try
\* and category.strip() of the validation is outside of it.
ClassifyReceiveResult(c, o) ==
    IF o.fail # "" THEN ClsReturned(c, UTILITY)
    ELSE IF c.sdk
    THEN IF o.t = "str"
         THEN ClsReturned(c, CategoryOf(Strip(o.s, WHITESPACE)))
         ELSE ClsReturned(c, UTILITY)
    ELSE IF o.t = "str" THEN ClsReturned(c, CategoryOf(o.s))
         ELSE ClsRaised(c, "AttributeError")

\* an outbound request: who sent it, over which transport, whether it carries
\* a credential (key), and the item names of its prompt
Request(by, transport, key, names) ==
    [by |-> by, transport |-> transport, key |-> key, names |-> names]

ClassifyEnter ==
    /\ cls.pc = "given"
    /\ cls' = ClassifyEnterResult(cls)
    /\ UNCHANGED <<vis, net, saveVars, delVars, pipeVars, parserVars, normVars, authVars>>

\* genai.chat.create(...) or requests.post(endpoint, ...) is sent; the SDK
\* carries the configured key or the application credentials, the REST request
\* carries API_KEY in any case
ClassifySend ==
    /\ cls.pc = "request"
    /\ net' = Append(net, Request("classify", IF cls.sdk THEN "sdk" ELSE "rest",
                                  cls.sdk \/ cls.apiKey, cls.names))
    /\ cls' = [cls EXCEPT !.pc = "wait"]
    /\ UNCHANGED <<vis, saveVars, delVars, pipeVars, parserVars, normVars, authVars>>

\* the provider call ends with o
ClassifyReceive(o) ==
    /\ cls.pc = "wait"
    /\ cls' = [ClassifyReceiveResult(cls, o) EXCEPT !.answer = o]
    /\ UNCHANGED <<vis, net, saveVars, delVars, pipeVars, parserVars, normVars, authVars>>

\* --- the calls classify_expense_category is given ---

MaxClsItems == 2

NamedItem == ClsItem(TRUE, "str", <<"P", "a", "o">>)
EmptyNameItem == ClsItem(TRUE, "str", <<>>)
ClsItems ==
    { NamedItem, EmptyNameItem, ClsItem(TRUE, "str", <<" ">>),
      ClsItem(TRUE, "absent", <<>>), ClsItem(TRUE, "num", <<>>),
      ClsItem(FALSE, "absent", <<>>) }

RECURSIVE ClsItemLists(_)
ClsItemLists(n) ==
    IF n = 0 THEN {<<>>}
    ELSE LET shorter == ClsItemLists(n - 1)
         IN  shorter \cup {Append(l, i) : l \in shorter, i \in ClsItems}

\* the short lists, and the lists of PROMPT_ITEMS - 1 or PROMPT_ITEMS equal
\* items followed by at most one more
ClsInputs ==
    ClsItemLists(MaxClsItems)
    \cup { [i \in 1..k |-> pad] \o tail :
              k \in {PROMPT_ITEMS - 1, PROMPT_ITEMS},
              pad \in {NamedItem, EmptyNameItem}, tail \in ClsItemLists(1) }

AnswerWords ==
    { FOOD, <<"f", "o", "o", "d">>, <<"F", "O", "O", "D">>, TRANSPORT, <<"u", "t", "i", "l", "i", "t", "y">>, ENTERTAINMENT,
      <<"G", "r", "o", "c", "e", "r", "i", "e", "s">>, <<>> }
Answers ==
    { pre \o w \o post :
          pre \in { <<>>, <<" ">>, <<"I", " ", "t", "h", "i", "n", "k", " ", "t", "h", "i", "s", " ", "i", "s", " ">> },
          w \in AnswerWords,
          post \in { <<>>, <<".">>, <<"\n">>, <<".", " ">>, <<" ", "a", "n", "d", " ", "T", "r", "a", "n", "s", "p", "o", "r", "t">> } }

ClsOutcomes ==
    { ClsOutcome(f, "none", <<>>) : f \in ClsFailures }
    \cup { ClsOutcome("", "str", a) : a \in Answers }
    \cup { ClsOutcome("", "null", <<>>) }

NoClsOutcome == ClsOutcome("", "none", <<>>)
ClsCall(apiKey, appCreds, sdk, items) ==
    [pc |-> "given", apiKey |-> apiKey, appCreds |-> appCreds, sdk |-> sdk,
     items |-> items, names |-> <<>>, answer |-> NoClsOutcome, ret |-> <<>>,
     exc |-> ""]

IdleCls == cls = [ClsCall(FALSE, FALSE, FALSE, <<>>) EXCEPT !.pc = "none"]

---------------------------------------------------------------------------
(* analyze_receipt_image: GeminiClient (src/app/services/llm_client.py) and  *)
(* the function of src/services/llm_client.py (impl = "legacy")              *)

\* what the provider call ends with: an exception of the call (fail; status
\* is the HTTP status of an HTTPError), or a 2xx answer holding the model's
\* completion in the given shape:
\*   "output"  {"candidates": [{"output": completion}]}, or for the SDK a
\*             dict {"candidates": [{"content": completion}]}
\*   "parts"   {"candidates": [{"content": {"parts": [{"text": completion}]}}]},
\*             or for the SDK a response object whose .last is the completion
\*   "empty"   {} (no candidates)
\*   "list"    a JSON value that is no object
VisOutcome(fail, status, shape, completion) ==
    [fail |-> fail, status |-> status, shape |-> shape, completion |-> completion]
NoVisOutcome == VisOutcome("", 0, "none", <<>>)

VisCall(impl, apiKey, appCreds, sdk, image) ==
    [pc |-> "given", impl |-> impl, apiKey |-> apiKey, appCreds |-> appCreds,
     sdk |-> sdk, image |-> image, outcome |-> NoVisOutcome, exc |-> "",
     msg |-> "", status |-> 0, body |-> FALSE, content |-> <<>>]

\* raise exc(msg); status and body are what the message carries of the
\* provider's answer: the status code (0 when it holds none, or 'N/A') and
\* whether it holds the response body
VisRaised(v, exc, msg, status, body) ==
    [v EXCEPT !.pc = "done", !.exc = exc, !.msg = msg, !.status = status,
              !.body = body]
\* return {"choices": [{"message": {"content": content}}], ...}
VisReturned(v, content) == [v EXCEPT !.pc = "done", !.content = content]

\* analyze_receipt_image up to the provider call: the credential check (app
\* only) and the read of the image
VisEnterResult(v) ==
    IF v.impl = "gemini" /\ ~v.apiKey /\ ~v.appCreds
    THEN VisRaised(v, "ValueError", "config", 0, FALSE)
    ELSE IF ~v.image
    THEN IF v.impl = "gemini" THEN VisRaised(v, "ValueError", "file", 0, FALSE)
         ELSE VisRaised(v, "FileNotFoundError", "", 0, FALSE)
    ELSE [v EXCEPT !.pc = "request"]

\* json.dumps({}) and str(response) of a response object without a completion
DUMP_EMPTY == <<"{", "}">>
RESPONSE_STR == <<"<", "r", "e", "s", "p", "o", "n", "s", "e", ">">>

\* the except Exception of the SDK branch: raise ValueError(...)
SdkFailure_fallthrough(v) == [v EXCEPT !.pc = "request", !.sdk = FALSE]
SdkFailure(v) == VisRaised(v, "ValueError", "sdk", 0, FALSE)

\* the except clauses of the REST branch. e.response is falsy for an error
\* status (Response.__bool__ is Response.ok), so the message holds 'N/A' and
\* str(e) in place of the status code and the body.
RestFailure(v, o) ==
    CASE o.fail = "Timeout" -> VisRaised(v, "ValueError", "timeout", 0, FALSE)
      [] o.fail = "ConnectionError" -> VisRaised(v, "ValueError", "connection", 0, FALSE)
      [] o.fail = "HTTPError" -> VisRaised(v, "ValueError", "http", 0, FALSE)
      [] OTHER -> VisRaised(v, o.fail, "", 0, FALSE)

\* the content of the envelope for a 2xx answer
SdkContent(o) ==
    CASE o.shape = "output" -> o.completion
      [] o.shape = "parts" -> IF o.completion # <<>> THEN o.completion ELSE RESPONSE_STR
      [] o.shape = "empty" -> <<>>
      [] OTHER -> RESPONSE_STR
RestContent(o) ==
    CASE o.shape = "output" -> o.completion
      [] o.shape = "parts" -> <<>>
      [] o.shape = "empty" -> DUMP_EMPTY
      [] OTHER -> <<>>

\* analyze_receipt_image after the provider call ended with o
VisReceiveResult(v, o) ==
    IF v.impl = "legacy"
    THEN IF o.fail # "" THEN VisRaised(v, o.fail, "", 0, FALSE)
         ELSE VisReturned(v, IF o.shape = "output" THEN o.completion ELSE <<>>)
    ELSE IF v.sdk
    THEN IF o.fail # "" THEN SdkFailure(v) ELSE VisReturned(v, SdkContent(o))
    ELSE IF o.fail # "" THEN RestFailure(v, o) ELSE VisReturned(v, RestContent(o))

VisEnter ==
    /\ vis.pc = "given"
    /\ vis' = VisEnterResult(vis)
    /\ UNCHANGED <<cls, net, saveVars, delVars, pipeVars, parserVars, normVars, authVars>>

\* genai.chat.create(...) or requests.post(...) is sent; the SDK carries the
\* configured key or the application credentials, the REST request carries
\* API_KEY (GROQ_API_KEY for the legacy function) in any case
VisSend ==
    /\ vis.pc = "request"
    /\ net' = Append(net, Request("analyze", IF vis.sdk THEN "sdk" ELSE "rest",
                                  vis.sdk \/ vis.apiKey, <<>>))
    /\ vis' = [vis EXCEPT !.pc = "wait"]
    /\ UNCHANGED <<cls, saveVars, delVars, pipeVars, parserVars, normVars, authVars>>

VisReceive(o) ==
    /\ vis.pc = "wait"
    /\ vis' = [VisReceiveResult(vis, o) EXCEPT !.outcome = o]
    /\ UNCHANGED <<cls, net, saveVars, delVars, pipeVars, parserVars, normVars, authVars>>

\* --- the calls and the provider outcomes ---

HttpStatuses == {400, 401, 429, 500, 503}
Completions == { <<>>, <<"{", "\"", "l", "o", "j", "a", "\"", ":", " ", "\"", "X", "\"", "}">>, <<" ">> }
VisOutcomes ==
    { VisOutcome(f, 0, "none", <<>>) : f \in {"Timeout", "ConnectionError", "Exception"} }
    \cup { VisOutcome("HTTPError", s, "none", <<>>) : s \in HttpStatuses }
    \cup { VisOutcome("", 200, sh, c) :
              sh \in {"output", "parts"}, c \in Completions }
    \cup { VisOutcome("", 200, sh, <<>>) : sh \in {"empty", "list"} }
VisCalls ==
    { VisCall("gemini", k, a, s, i) : k, a, s, i \in BOOLEAN }
    \cup { VisCall("legacy", k, FALSE, FALSE, i) : k, i \in BOOLEAN }

IdleVis == vis = [VisCall("gemini", FALSE, FALSE, FALSE, FALSE) EXCEPT !.pc = "none"]
IdleLlm == IdleCls /\ IdleVis /\ net = <<>>

---------------------------------------------------------------------------
(* User: src/app/models/user.py *)

\* Python's None where the model has a string
None == <<"None">>

\* bcrypt.gensalt(): the salt is part of the hash
Salts == {"s1", "s2"}
NoHash == [salt |-> "", of |-> <<>>]

hash_password(password, salt) == [salt |-> salt, of |-> password]

\* bcrypt.checkpw: hashing the password with the hash's own salt gives the hash
verify_password(password, password_hash) ==
    hash_password(password, password_hash.salt) = password_hash

\* a row of table users (created_at and updated_at are left out), and the
\* columns that RETURNING and find_by_id select; id 0 stands for None
Row(id, email, password_hash, name) ==
    [id |-> id, email |-> email, password_hash |-> password_hash, name |-> name]
NoRow == Row(0, <<>>, NoHash, <<>>)
View(u) == [id |-> u.id, email |-> u.email, name |-> u.name]
NoUser == View(NoRow)

\* the INSERT of a table without the UNIQUE constraint on email
create_user_result_not_unique(tbl, s, email, password, name, salt) ==
    LET row == Row(s + 1, Strip(Lower(email), WHITESPACE),
                   hash_password(password, salt), Strip(name, WHITESPACE))
    IN  [users |-> tbl \cup {row}, seq |-> s + 1, ret |-> View(row)]

\* create_user: the INSERT takes the next id of the sequence; email is UNIQUE
\* (create_table), and psycopg2.IntegrityError is answered with None
create_user_result(tbl, s, email, password, name, salt) ==
    LET row == Row(s + 1, Strip(Lower(email), WHITESPACE),
                   hash_password(password, salt), Strip(name, WHITESPACE))
    IN  IF \E u \in tbl : u.email = row.email
        THEN [users |-> tbl, seq |-> s + 1, ret |-> NoUser]
        ELSE [users |-> tbl \cup {row}, seq |-> s + 1, ret |-> View(row)]

\* SELECT * FROM users WHERE email = lower(email).strip()
find_by_email(tbl, email) ==
    LET rows == {u \in tbl : u.email = Strip(Lower(email), WHITESPACE)}
    IN  IF rows = {} THEN NoRow ELSE CHOOSE u \in rows : TRUE

\* SELECT id, email, name, ... WHERE id = user_id
find_by_id(tbl, user_id) ==
    LET rows == {u \in tbl : u.id = user_id}
    IN  IF rows = {} THEN NoUser ELSE View(CHOOSE u \in rows : TRUE)

\* update_user(user_id, **kw): the fields that are not None are stored as
\* given; no field, no such row or an email of another row answer None
update_user_result(tbl, user_id, kw, salt) ==
    LET given == {k \in {"name", "email", "password"} : kw[k] # None}
        rows == {u \in tbl : u.id = user_id}
        Updated(u) ==
            Row(u.id,
                IF "email" \in given THEN kw.email ELSE u.email,
                IF "password" \in given
                    THEN hash_password(kw.password, salt) ELSE u.password_hash,
                IF "name" \in given THEN kw.name ELSE u.name)
    IN  IF given = {} \/ rows = {}
        THEN [users |-> tbl, ret |-> NoUser]
        ELSE LET u == CHOOSE u \in rows : TRUE
             IN  IF \E o \in tbl : o.id # u.id /\ o.email = Updated(u).email
                 THEN [users |-> tbl, ret |-> NoUser]
                 ELSE [users |-> (tbl \ {u}) \cup {Updated(u)},
                       ret |-> View(Updated(u))]

\* --- direct calls of the model's functions (SpecUser) ---

MaxSeq == 3

CallCreateUser(email, password, name, salt) ==
    /\ seq < MaxSeq
    /\ LET res == create_user_result(users, seq, email, password, name, salt)
       IN  users' = res.users /\ seq' = res.seq
    /\ UNCHANGED <<auth, saveVars, delVars, pipeVars, parserVars, normVars, llmVars>>

CallUpdateUser(user_id, kw, salt) ==
    /\ users' = update_user_result(users, user_id, kw, salt).users
    /\ UNCHANGED <<seq, auth, saveVars, delVars, pipeVars, parserVars, normVars, llmVars>>

---------------------------------------------------------------------------
(* The /auth routes: src/app/routes/auth.py *)

AsciiLetters ==
    {"a", "b", "c", "d", "e", "f", "g", "h", "i", "j", "k", "l", "m", "n", "o",
     "p", "q", "r", "s", "t", "u", "v", "w", "x", "y", "z",
     "A", "B", "C", "D", "E", "F", "G", "H", "I", "J", "K", "L", "M", "N", "O",
     "P", "Q", "R", "S", "T", "U", "V", "W", "X", "Y", "Z"}
AsciiDigits == {"0", "1", "2", "3", "4", "5", "6", "7", "8", "9"}

\* re.match(r'^[a-zA-Z0-9._%+-]+@[a-zA-Z0-9.-]+\.[a-zA-Z]{2,}$', email); the $
\* also matches before a final newline
validate_email(email) ==
    LET e == IF email # <<>> /\ Last(email) = "\n" THEN Front(email) ELSE email
    IN  \E at \in 1..Len(e), dot \in 1..Len(e) :
            /\ e[at] = "@" /\ e[dot] = "."
            /\ 1 < at /\ at + 1 < dot /\ dot + 2 <= Len(e)
            /\ \A i \in 1..(at - 1) :
                   e[i] \in AsciiLetters \cup AsciiDigits \cup {".", "_", "%", "+", "-"}
            /\ \A i \in (at + 1)..(dot - 1) :
                   e[i] \in AsciiLetters \cup AsciiDigits \cup {".", "-"}
            /\ \A i \in (dot + 1)..Len(e) : e[i] \in AsciiLetters

validate_password(password) == 6 <= Len(password) /\ Len(password) <= 100

\* JWTHandler.generate_tokens(user_id, email)
generate_tokens(user_id, email) == [sub |-> user_id, email |-> email]
NoTokens == generate_tokens(0, <<>>)

\* str(e) of the HTTPException that abort(code, ...) raises
HttpName(code) ==
    CASE code = 400 -> "400 Bad Request"
      [] code = 401 -> "401 Unauthorized"
      [] code = 404 -> "404 Not Found"
      [] code = 409 -> "409 Conflict"
      [] code = 500 -> "500 Internal Server Error"

NoAuthReq ==
    [route |-> "none", pc |-> "idle", schemaOk |-> FALSE, email |-> <<>>,
     password |-> <<>>, name |-> <<>>, token |-> "none", sub |-> 0,
     existing |-> 0, verified |-> FALSE, created |-> 0,
     status |-> 0, message |-> <<>>, user |-> NoUser, tokens |-> NoTokens]

AuthRespond(rq, status, message, user, tokens) ==
    [rq EXCEPT !.pc = "done", !.status = status, !.message = message,
               !.user = user, !.tokens = tokens]

\* auth_ns.abort(code, message) outside a try block
Abort(rq, code, message) == AuthRespond(rq, code, <<message>>, NoUser, NoTokens)

\* auth_ns.abort(code, ...) inside the handler's try block: the HTTPException
\* is an Exception, so the handler's except clause answers it with
\* abort(500, prefix + str(e))
AbortInTry(rq, code, prefix) ==
    AuthRespond(rq, 500, <<prefix, HttpName(code)>>, NoUser, NoTokens)

\* the 401 of the JWT loaders (src/app/__init__.py)
JwtRejected(rq) == Abort(rq, 401, "Token invalido")

\* Register.post up to the find_by_email check
RegisterCheckResult(rq, tbl) ==
    LET email == Strip(rq.email, WHITESPACE)
        name == Strip(rq.name, WHITESPACE)
        existing_user == find_by_email(tbl, email)
    IN  IF ~rq.schemaOk THEN Abort(rq, 400, "Input payload validation failed")
        ELSE IF email = <<>> \/ rq.password = <<>> \/ name = <<>>
            THEN AbortInTry(rq, 400, "Erro interno: ")
        ELSE IF ~validate_email(email) THEN AbortInTry(rq, 400, "Erro interno: ")
        ELSE IF ~validate_password(rq.password)
            THEN AbortInTry(rq, 400, "Erro interno: ")
        ELSE IF Len(name) < 3 THEN AbortInTry(rq, 400, "Erro interno: ")
        ELSE IF existing_user # NoRow
            THEN [AbortInTry(rq, 409, "Erro interno: ")
                      EXCEPT !.existing = existing_user.id]
        ELSE [rq EXCEPT !.pc = "insert"]

\* Register.post from User.create_user on
RegisterInsertResult(rq, user) ==
    IF user = NoUser THEN AbortInTry(rq, 500, "Erro interno: ")
    ELSE [AuthRespond(rq, 201, <<"Usuario criado com sucesso">>, user,
                      generate_tokens(user.id, user.email))
              EXCEPT !.created = user.id]

\* Login.post that tells an unknown email from a wrong password
LoginResult_telling(rq, tbl) ==
    LET email == Strip(rq.email, WHITESPACE)
        user == find_by_email(tbl, email)
    IN  IF ~rq.schemaOk THEN Abort(rq, 400, "Input payload validation failed")
        ELSE IF email = <<>> \/ rq.password = <<>>
            THEN AbortInTry(rq, 400, "Erro interno: ")
        ELSE IF user = NoRow THEN AbortInTry(rq, 404, "Erro interno: ")
        ELSE IF ~verify_password(rq.password, user.password_hash)
            THEN [AbortInTry(rq, 401, "Erro interno: ") EXCEPT !.existing = user.id]
        ELSE [AuthRespond(rq, 200, <<"Login realizado com sucesso">>, View(user),
                          generate_tokens(user.id, user.email))
                  EXCEPT !.existing = user.id, !.verified = TRUE]

\* Login.post
LoginResult(rq, tbl) ==
    LET email == Strip(rq.email, WHITESPACE)
        user == find_by_email(tbl, email)
    IN  IF ~rq.schemaOk THEN Abort(rq, 400, "Input payload validation failed")
        ELSE IF email = <<>> \/ rq.password = <<>>
            THEN AbortInTry(rq, 400, "Erro interno: ")
        ELSE IF user = NoRow THEN AbortInTry(rq, 401, "Erro interno: ")
        ELSE IF ~verify_password(rq.password, user.password_hash)
            THEN [AbortInTry(rq, 401, "Erro interno: ") EXCEPT !.existing = user.id]
        ELSE [AuthRespond(rq, 200, <<"Login realizado com sucesso">>, View(user),
                          generate_tokens(user.id, user.email))
                  EXCEPT !.existing = user.id, !.verified = TRUE]

\* Profile.get: @jwt_required() wants an access token
ProfileResult(rq, tbl) ==
    LET user == find_by_id(tbl, rq.sub)
    IN  IF rq.token # "access" THEN JwtRejected(rq)
        ELSE IF user = NoUser THEN AbortInTry(rq, 404, "Erro ao buscar perfil: ")
        ELSE AuthRespond(rq, 200, <<>>, user, NoTokens)

\* Refresh.post: @jwt_required(refresh=True) wants a refresh token
RefreshResult(rq, tbl) ==
    LET user == find_by_id(tbl, rq.sub)
    IN  IF rq.token # "refresh" THEN JwtRejected(rq)
        ELSE IF user = NoUser THEN AbortInTry(rq, 404, "Erro ao renovar token: ")
        ELSE AuthRespond(rq, 200, <<"Token renovado com sucesso">>, NoUser,
                         generate_tokens(user.id, user.email))

AuthReqs == {1, 2}

RegisterCheck(r, schemaOk, email, password, name) ==
    /\ auth[r].pc = "idle"
    /\ auth' = [auth EXCEPT ![r] =
           RegisterCheckResult(
               [@ EXCEPT !.route = "register", !.schemaOk = schemaOk,
                         !.email = email, !.password = password, !.name = name],
               users)]
    /\ UNCHANGED <<users, seq, saveVars, delVars, pipeVars, parserVars, normVars, llmVars>>

RegisterInsert(r, salt) ==
    /\ auth[r].route = "register" /\ auth[r].pc = "insert"
    /\ seq < MaxSeq
    /\ LET res == create_user_result(users, seq, Strip(auth[r].email, WHITESPACE),
                                     auth[r].password,
                                     Strip(auth[r].name, WHITESPACE), salt)
       IN  /\ users' = res.users
           /\ seq' = res.seq
           /\ auth' = [auth EXCEPT ![r] = RegisterInsertResult(@, res.ret)]
    /\ UNCHANGED <<saveVars, delVars, pipeVars, parserVars, normVars, llmVars>>

Login(r, schemaOk, email, password) ==
    /\ auth[r].pc = "idle"
    /\ auth' = [auth EXCEPT ![r] =
           LoginResult([@ EXCEPT !.route = "login", !.schemaOk = schemaOk,
                                 !.email = email, !.password = password],
                       users)]
    /\ UNCHANGED <<users, seq, saveVars, delVars, pipeVars, parserVars, normVars, llmVars>>

Profile(r, token, sub) ==
    /\ auth[r].pc = "idle"
    /\ auth' = [auth EXCEPT ![r] =
           ProfileResult([@ EXCEPT !.route = "me", !.token = token, !.sub = sub],
                         users)]
    /\ UNCHANGED <<users, seq, saveVars, delVars, pipeVars, parserVars, normVars, llmVars>>

Refresh(r, token, sub) ==
    /\ auth[r].pc = "idle"
    /\ auth' = [auth EXCEPT ![r] =
           RefreshResult([@ EXCEPT !.route = "refresh", !.token = token, !.sub = sub],
                         users)]
    /\ UNCHANGED <<users, seq, saveVars, delVars, pipeVars, parserVars, normVars, llmVars>>

\* --- the requests and the accounts of the model ---

Repeat(c, n) == [i \in 1..n |-> c]
AuthEmails ==
    { <<"a", "@", "b", ".", "c", "o">>, <<"A", "@", "B", ".", "c", "o">>,
      <<" ", "a", "@", "b", ".", "c", "o">>, <<"c", "@", "d", ".", "i", "o">>,
      <<"a", "@", "b">>, <<>> }
AuthPasswords ==
    { <<"s", "e", "c", "r", "e", "t">>, <<"h", "u", "n", "t", "e", "r", "2">>,
      <<"s", "h", "o", "r", "t">>, Repeat("x", 101) }
AuthNames == { <<"A", "n", "a">>, <<"A", "l", " ">> }
AuthTokens == {"missing", "invalid", "access", "refresh"}

\* the account of an earlier registration
EarlierUser ==
    create_user_result({}, 0, <<"a", "@", "b", ".", "c", "o">>,
                       <<"s", "e", "c", "r", "e", "t">>, <<"A", "n", "a">>, "s1")

IdleAuth ==
    /\ users = {}
    /\ seq = 0
    /\ auth = [r \in AuthReqs |-> NoAuthReq]

\* the arguments of the direct calls
UserEmails ==
    { <<"a", "@", "b", ".", "c", "o">>, <<"A", "@", "b", ".", "c", "o">>,
      <<"a", "@", "b", ".", "c", "o", " ">> }
UserPasswords == { <<"s", "e", "c", "r", "e", "t">> }
UserNames == { <<"A", "n", "a">> }
UpdateArgs ==
    [name : {None} \cup UserNames, email : {None} \cup UserEmails,
     password : {None, <<"h", "u", "n", "t", "e", "r", "2">>}]

---------------------------------------------------------------------------
(* The specifications *)

\* the uploads directory holds any of the files of earlier requests
EarlierUploads == { {}, {UploadPath(UniqueFilename(<<"a", ".", "p", "n", "g">>, 1, 0))} }

InitSave ==
    /\ fs \in EarlierUploads
    /\ call = NoCall
    /\ outcome = NoOutcome
    /\ IdleDelete /\ IdlePipeline /\ IdleParser /\ IdleNorm /\ IdleLlm /\ IdleAuth

NextSave ==
    \/ \E filename \in FileNames, uid \in 1..MaxUid, t \in 0..MaxClock :
           CallSave(filename, uid, t)
    \/ \E filename \in FileNames : CallLegacySave(filename)

SpecSave == InitSave /\ [][NextSave]_vars

InitDelete ==
    /\ disk \in [DelPaths -> {"none", "file", "dir"}]
    /\ del = [d \in Deleters |-> IdleDeleter]
    /\ removedBy = [p \in DelPaths |-> {}]
    /\ IdleSave /\ IdlePipeline /\ IdleParser /\ IdleNorm /\ IdleLlm /\ IdleAuth

NextDelete ==
    \/ \E d \in Deleters, p \in DelPaths : DeleteExists(d, p)
    \/ \E d \in Deleters : DeleteRemove(d)

SpecDelete == InitDelete /\ [][NextDelete]_vars

InitPipeline == IdleSave /\ IdleDelete /\ IdlePipeline /\ IdleParser /\ IdleNorm /\ IdleLlm /\ IdleAuth

NextPipeline ==
    \/ \E r \in Reqs, token \in {"valid", "missing", "invalid"},
          userExists \in BOOLEAN, uid \in 1..MaxUid, hasFile \in BOOLEAN,
          filename \in PipeNames :
           /\ (~hasFile => filename = <<>>)
           /\ AnalyzePost(r, token, userExists, uid, hasFile, filename)
    \/ \E r \in Reqs : AnalyzeRespond(r)
    \/ \E r \in Reqs, filename \in PipeNames : AnalisarCupom(r, filename)
    \/ \E r \in Reqs, o \in VisionOutcomes : AnalisarVision(r, o)
    \/ \E r \in Reqs, success \in LegacyParseResults : AnalisarParse(r, success)
    \/ Tick

SpecPipeline == InitPipeline /\ [][NextPipeline]_vars

InitParser ==
    /\ response \in {[kind |-> k, text |-> t] : k \in {"str", "envelope"}, t \in Texts}
    /\ parsed = [NoParse EXCEPT !.state = "none"]
    /\ IdleSave /\ IdleDelete /\ IdlePipeline /\ IdleNorm /\ IdleLlm /\ IdleAuth

NextParser == Parse

SpecParser == InitParser /\ [][NextParser]_vars

InitNorm ==
    /\ data \in {[state |-> "given", d |-> d] : d \in DataInputs}
    /\ validated = [state |-> "none", exc |-> "", receipt |-> <<>>]
    /\ IdleSave /\ IdleDelete /\ IdlePipeline /\ IdleParser /\ IdleLlm /\ IdleAuth

NextNorm == Validate

SpecNorm == InitNorm /\ [][NextNorm]_vars

InitClassify ==
    /\ cls \in { ClsCall(k, a, s, items) : k, a, s \in BOOLEAN, items \in ClsInputs }
    /\ IdleVis /\ net = <<>>
    /\ IdleSave /\ IdleDelete /\ IdlePipeline /\ IdleParser /\ IdleNorm /\ IdleAuth

NextClassify ==
    \/ ClassifyEnter
    \/ ClassifySend
    \/ \E o \in ClsOutcomes : ClassifyReceive(o)

SpecClassify == InitClassify /\ [][NextClassify]_vars

InitVision ==
    /\ vis \in VisCalls
    /\ IdleCls /\ net = <<>>
    /\ IdleSave /\ IdleDelete /\ IdlePipeline /\ IdleParser /\ IdleNorm /\ IdleAuth

NextVision ==
    \/ VisEnter
    \/ VisSend
    \/ \E o \in VisOutcomes : VisReceive(o)

SpecVision == InitVision /\ [][NextVision]_vars

InitAuth ==
    /\ \/ users = {} /\ seq = 0
       \/ users = EarlierUser.users /\ seq = EarlierUser.seq
    /\ auth = [r \in AuthReqs |-> NoAuthReq]
    /\ IdleSave /\ IdleDelete /\ IdlePipeline /\ IdleParser /\ IdleNorm /\ IdleLlm

NextAuth ==
    \/ \E r \in AuthReqs, schemaOk \in BOOLEAN, email \in AuthEmails,
          password \in AuthPasswords, name \in AuthNames :
           RegisterCheck(r, schemaOk, email, password, name)
    \/ \E r \in AuthReqs, salt \in Salts : RegisterInsert(r, salt)
    \/ \E r \in AuthReqs, schemaOk \in BOOLEAN, email \in AuthEmails,
          password \in AuthPasswords :
           Login(r, schemaOk, email, password)
    \/ \E r \in AuthReqs, token \in AuthTokens, sub \in 1..MaxSeq :
           Profile(r, token, sub)
    \/ \E r \in AuthReqs, token \in AuthTokens, sub \in 1..MaxSeq :
           Refresh(r, token, sub)

SpecAuth == InitAuth /\ [][NextAuth]_vars

InitUser ==
    /\ \/ users = {} /\ seq = 0
       \/ users = EarlierUser.users /\ seq = EarlierUser.seq
    /\ auth = [r \in AuthReqs |-> NoAuthReq]
    /\ IdleSave /\ IdleDelete /\ IdlePipeline /\ IdleParser /\ IdleNorm /\ IdleLlm

NextUser ==
    \/ \E email \in UserEmails, password \in UserPasswords, name \in UserNames,
          salt \in Salts :
           CallCreateUser(email, password, name, salt)
    \/ \E user_id \in 1..MaxSeq, kw \in UpdateArgs, salt \in Salts :
           CallUpdateUser(user_id, kw, salt)

SpecUser == InitUser /\ [][NextUser]_vars

---------------------------------------------------------------------------
(* Properties *)

\* the extension of a filename, as the interface states it: the text after the
\* last dot, compared without case, is one of png, jpg, jpeg, pdf
ExtensionInAllowList(filename) ==
    \E e \in ALLOWED_EXTENSIONS :
        /\ Len(filename) > Len(e)
        /\ filename[Len(filename) - Len(e)] = "."
        /\ \A i \in 1..Len(e) : LowerChar(filename[Len(filename) - Len(e) + i]) = e[i]

\* C1: once a receipt-analysis run has stored its upload, a run that ends in
\* an error response has deleted the stored file before responding.
C1_FailedRunDeletesUpload ==
    \A r \in Reqs :
        (req[r].pc = "done" /\ req[r].stored # <<>> /\ req[r].status >= 400)
            => req[r].stored \notin uploads

\* C2: FileHandler.save_uploaded_file called with a filename whose extension
\* is not in the allow-list (no dot and the empty name included) raises
\* ValueError and leaves the files on disk as they were.
C2_ExtensionGate ==
    [][ (call.fn = "none" /\ call'.fn = "save_uploaded_file"
            /\ ~ExtensionInAllowList(call'.filename))
        => (outcome' = Raised("ValueError") /\ fs' = fs) ]_vars

\* a name with a dot and an extension outside the list was refused
C2_Witness ==
    /\ call.fn = "save_uploaded_file"
    /\ Contains(call.filename, ".")
    /\ ~ExtensionInAllowList(call.filename)
    /\ outcome = Raised("ValueError")

\* C3: delete_file never raises; on a path that does not exist it returns
\* False; it returns True only when this very call removed the file, so of
\* the concurrent deletes of one path at most one returns True.
C3_DeleteNeverRaises ==
    /\ [](\A d \in Deleters :
            /\ del[d].ret # "raised"
            /\ (del[d].ret = "True" => d \in removedBy[del[d].path]))
    /\ [](\A p \in DelPaths :
            Cardinality({d \in Deleters : del[d].path = p /\ del[d].ret = "True"}) <= 1)
    /\ [][ \A d \in Deleters :
              (del[d].pc = "idle" /\ del'[d].pc # "idle" /\ disk[del'[d].path] = "none")
                  => (del'[d].pc = "done" /\ del'[d].ret = "False") ]_vars

\* two deletes of one file raced: both saw it exist, one removed it and
\* returned True, the other found it gone and returned False
C3_Witness ==
    \E d1, d2 \in Deleters :
        /\ d1 # d2 /\ del[d1].path = del[d2].path
        /\ del[d1].pc = "done" /\ del[d2].pc = "done"
        /\ del[d1].existed /\ del[d2].existed
        /\ del[d1].ret = "True" /\ del[d2].ret = "False"
        /\ removedBy[del[d1].path] = {d1}

\* C4: a completion text that is not valid JSON after the fence cleanup makes
\* parse_llm_response return (not raise) a failure with the JSON-invalid error
\* and the original completion text as raw_response.
C4_InvalidJsonKeepsRawText ==
    (parsed.state # "none" /\ ~JsonLoads(CleanFence(response.text)).ok)
        => /\ parsed.state = "returned"
           /\ ~parsed.success
           /\ parsed.error = "JSON invalido"
           /\ parsed.raw = [kind |-> "str", text |-> response.text]

\* C5: given the envelope of the vision client whose completion text is a
\* valid JSON object, parse_llm_response returns success with the decoded text.
C5_EnvelopeIsDecoded ==
    (parsed.state # "none" /\ response.kind = "envelope"
        /\ JsonLoads(response.text).ok /\ JsonLoads(response.text).val[1] = "obj")
        => /\ parsed.state = "returned"
           /\ parsed.success
           /\ parsed.data = JsonLoads(response.text).val

\* the text inside FENCE json \n ... \n FENCE
IsWrapped(t) ==
    /\ Len(t) >= Len(FENCE) + Len(JSON_TAG) + Len(FENCE_END)
    /\ StartsWith(t, FENCE \o JSON_TAG)
    /\ EndsWith(t, FENCE_END)
Unwrapped(t) ==
    SubSeq(t, Len(FENCE) + Len(JSON_TAG) + 1, Len(t) - Len(FENCE_END))
IsJsonObject(x) == JsonLoads(x).ok /\ JsonLoads(x).val[1] = "obj"

\* C6: parsing a valid JSON object X inside a markdown fence gives the data
\* that parsing X itself gives.
C6_FenceRoundTrip ==
    (parsed.state # "none" /\ response.kind = "str" /\ IsWrapped(response.text)
        /\ IsJsonObject(Unwrapped(response.text)))
        => /\ parsed.state = "returned"
           /\ parsed.success
           /\ parsed.data
                = parse_llm_response([kind |-> "str",
                                      text |-> Unwrapped(response.text)]).data

\* a fenced object with a member was parsed
C6_Witness ==
    /\ parsed.state = "returned" /\ parsed.success
    /\ response.kind = "str" /\ IsWrapped(response.text)
    /\ IsJsonObject(Unwrapped(response.text))
    /\ parsed.data[1] = "obj" /\ DOMAIN parsed.data[2] # {}

RECURSIVE SumTotals(_)
SumTotals(itens) ==
    IF itens = <<>> THEN 0 ELSE Head(itens).valor_total + SumTotals(Tail(itens))

\* C7: _validate_receipt_data returns a receipt for every decoded object and
\* never raises.
C7_NormalizerIsTotal ==
    validated.state = "done" => validated.exc = ""

\* a provider total that is a number, or a string that reads as one
NumericallyValid(v) == v.t = "num" \/ (v.t = "str" /\ v.s \in FloatStrings)
NumericValue(v) == IF v.t = "num" THEN v.n ELSE NumberOfString(v.s)

\* C8: the receipt's valor_total is the provider's valor_total whenever that
\* is numerically valid (0 included), and otherwise the sum of the totals of
\* the items kept.
C8_ProviderTotalWins ==
    (validated.state = "done" /\ validated.exc = "")
        => validated.receipt.valor_total
             = IF NumericallyValid(data.d.valor_total)
               THEN NumericValue(data.d.valor_total)
               ELSE SumTotals(validated.receipt.itens)

\* an item whose total float() takes, and one with nothing wrong at all
TotalCoercible(item) == item.obj /\ ItemValor(item).ok
WellFormed(item) ==
    /\ item.obj
    /\ item.valor_total.t = "num"
    /\ item.quantidade.t \in {"absent", "num"}
    /\ item.valor_unitario.t \in {"absent", "num"}

\* C9: for any list of raw items no exception is raised; no kept item comes
\* from a raw item whose total cannot be coerced; the well-formed items are
\* all kept, in their input order; and without a provider total the
\* receipt's valor_total is the sum of the totals of the kept items.
C9_BadItemsAreDropped ==
    (validated.state = "done" /\ data.d.itens.t = "list")
        => /\ validated.exc = ""
           /\ LET raw == data.d.itens.items
                  out == validated.receipt.itens
              IN  /\ \A k \in 1..Len(out) : TotalCoercible(raw[out[k].src])
                  /\ \A k, l \in 1..Len(out) : k < l => out[k].src < out[l].src
                  /\ \A i \in 1..Len(raw) :
                         WellFormed(raw[i]) => \E k \in 1..Len(out) : out[k].src = i
                  /\ data.d.valor_total.t = "absent"
                         => validated.receipt.valor_total = SumTotals(out)

Missing(v) == v.t \in {"absent", "null"}

\* C10: a field missing or null in the parsed data gets its documented
\* default: loja and forma_pagamento "Nao identificado", data_compra null,
\* categoria null, texto_bruto "".
C10_DocumentedDefaults ==
    (validated.state = "done" /\ validated.exc = "")
        => /\ Missing(data.d.loja) => validated.receipt.loja = NAO_IDENTIFICADO
           /\ Missing(data.d.data_compra) => validated.receipt.data_compra = Null
           /\ Missing(data.d.forma_pagamento)
                  => validated.receipt.forma_pagamento = NAO_IDENTIFICADO
           /\ Missing(data.d.categoria) => validated.receipt.categoria = Null
           /\ Missing(data.d.texto_bruto) => validated.receipt.texto_bruto = Str("")

\* C11: every item of a returned receipt has an integer quantidade of at least
\* 1, and of exactly 1 when the raw item it comes from has no quantidade.
C11_QuantityAtLeastOne ==
    (validated.state = "done" /\ validated.exc = "") =>
        \A i \in 1..Len(validated.receipt.itens) :
            LET item == validated.receipt.itens[i]
                raw == data.d.itens.items[item.src]
            IN  /\ item.quantidade \in Int
                /\ item.quantidade >= 1
                /\ raw.quantidade = Absent => item.quantidade = 1

CategoryEnum == {FOOD, TRANSPORT, UTILITY, ENTERTAINMENT}

\* C12: classify_expense_category never raises and returns one of Food,
\* Transport, Utility, Entertainment for every items list and every provider
\* outcome, and returns Utility whenever the provider call fails.
C12_ClassifierIsTotal ==
    cls.pc = "done" =>
        /\ cls.exc = ""
        /\ cls.ret \in CategoryEnum
        /\ cls.answer.fail # "" => cls.ret = UTILITY

\* the enum values that occur in the raw answer, compared without case
OccurringCategories(raw) == {c \in CategoryEnum : Occurs(Lower(c), Lower(raw))}

\* C13: for a text answer of the model the classifier returns the answer when
\* it is exactly one of the four categories, otherwise a category that occurs
\* in the answer without regard to case, otherwise Utility.
C13_AnswerValidation ==
    (cls.pc = "done" /\ cls.answer.t = "str") =>
        LET raw == cls.answer.s
        IN  /\ cls.exc = ""
            /\ raw \in CategoryEnum => cls.ret = raw
            /\ (raw \notin CategoryEnum /\ OccurringCategories(raw) # {})
                   => cls.ret \in OccurringCategories(raw)
            /\ OccurringCategories(raw) = {} => cls.ret = UTILITY

C13_Witness ==
    /\ cls.pc = "done" /\ cls.answer.t = "str"
    /\ cls.answer.s \notin CategoryEnum
    /\ Occurs(<<"f", "o", "o", "d">>, cls.answer.s)
    /\ cls.ret = FOOD

\* the first ten items are dicts whose nome is a str or missing
PlainFirstTen(items) ==
    \A i \in 1..Len(items) :
        i <= PROMPT_ITEMS => items[i].obj /\ items[i].t \in {"str", "absent", "null"}
\* the non-empty names of the first ten items, in order
FirstTenNames(items) ==
    LET named == SelectSeq(SubSeq(items, 1, IF Len(items) < PROMPT_ITEMS
                                            THEN Len(items) ELSE PROMPT_ITEMS),
                           LAMBDA it : it.t = "str" /\ it.s # <<>>)
    IN  [i \in 1..Len(named) |-> named[i].s]
\* every name is whitespace, and there are not two of them for a ", " between
NoItemText(items) ==
    LET names == FirstTenNames(items)
    IN  Len(names) <= 1 /\ \A i \in 1..Len(names) : \A j \in 1..Len(names[i]) :
            names[i][j] \in WHITESPACE

\* C14: with an empty items list, or with first ten items whose joined names
\* are empty or whitespace, classify_expense_category sends no request and
\* returns Utility; a request it sends lists the names of the first ten items
\* only.
C14_ShortCircuitAndPromptBound ==
    /\ (cls.pc # "none" /\ (cls.items = <<>> \/ (PlainFirstTen(cls.items) /\ NoItemText(cls.items))))
           => /\ net = <<>>
              /\ cls.pc = "done" => (cls.exc = "" /\ cls.ret = UTILITY)
    /\ \A i \in 1..Len(net) :
           net[i].by = "classify" =>
               /\ net[i].names = FirstTenNames(cls.items)
               /\ Len(net[i].names) <= PROMPT_ITEMS

C14_Witness ==
    /\ cls.pc = "done" /\ net = <<>> /\ cls.ret = UTILITY
    /\ cls.apiKey
    /\ Len(cls.items) > PROMPT_ITEMS
    /\ \E i \in 1..Len(cls.items) : i > PROMPT_ITEMS /\ cls.items[i] = NamedItem

AnalyzeRequests == SelectSeq(net, LAMBDA r : r.by = "analyze")

\* C15: without a configured credential analyze_receipt_image fails with the
\* configuration error and no request is ever sent; no request is sent that
\* carries no credential.
C15_CredentialCheckedFirst ==
    /\ (vis.pc # "none" /\ ~vis.apiKey /\ ~vis.appCreds) =>
           /\ AnalyzeRequests = <<>>
           /\ vis.pc = "done" => (vis.exc = "ValueError" /\ vis.msg = "config")
    /\ \A i \in 1..Len(AnalyzeRequests) : AnalyzeRequests[i].key

\* the outcomes the interface tells apart
OutcomeClass(o) ==
    CASE o.fail = "HTTPError" /\ o.status \in {400, 401, 429} -> <<"http", o.status>>
      [] o.fail = "HTTPError" -> <<"http", 0>>
      [] OTHER -> <<o.fail, 0>>
TransportFailures == {o \in VisOutcomes : o.fail \in {"Timeout", "ConnectionError", "HTTPError"}}

\* C16: a failed provider call of GeminiClient.analyze_receipt_image raises an
\* error whose kind (exception class and message) no outcome of another class
\* (401, 429, 400, timeout, connection failure, other status) would raise,
\* and for another status the error carries the status code and the body.
C16_DistinctErrorKinds ==
    (vis.pc = "done" /\ vis.impl = "gemini" /\ vis.outcome \in TransportFailures) =>
        /\ \A o \in TransportFailures :
               OutcomeClass(o) # OutcomeClass(vis.outcome) =>
                   LET other == VisReceiveResult(vis, o)
                   IN  <<other.exc, other.msg>> # <<vis.exc, vis.msg>>
        /\ OutcomeClass(vis.outcome) = <<"http", 0>> =>
               (vis.status = vis.outcome.status /\ vis.body)

\* C17: a 2xx answer without a completion makes GeminiClient.analyze_receipt_image
\* fail with the empty-response error, and a returned envelope holds the
\* model's completion, which is not empty.
C17_EmptyCompletionIsAnError ==
    (vis.pc = "done" /\ vis.impl = "gemini" /\ vis.outcome.shape # "none") =>
        /\ vis.outcome.completion = <<>> => vis.msg = "empty"
        /\ vis.exc = "" =>
               (vis.content = vis.outcome.completion /\ vis.content # <<>>)

\* C18: a call of analyze_receipt_image sends at most one request, whatever the
\* request ends with.
C18_SingleRequest == Len(AnalyzeRequests) <= 1

C18_Witness ==
    /\ vis.pc = "done" /\ vis.impl = "gemini" /\ vis.sdk
    /\ vis.outcome.fail = "Timeout" /\ vis.exc = "ValueError"
    /\ Len(AnalyzeRequests) = 1

\* the intake errors of a request: no file field, an empty filename, an
\* extension outside the allow-list
IntakeError(rq) ==
    ~rq.hasFile \/ rq.filename = <<>> \/ ~ExtensionInAllowList(rq.filename)

\* C19: a POST /ocr/analyze of an authenticated caller with an intake error is
\* answered 400 with success = false, and stores no file.
C19_IntakeErrorsAre400 ==
    [][\A r \in Reqs :
          (/\ req[r].pc = "idle" /\ req'[r].route = "analyze"
           /\ req'[r].token = "valid" /\ req'[r].userExists
           /\ IntakeError(req'[r]))
              => /\ req'[r].pc = "done"
                 /\ req'[r].status = 400
                 /\ req'[r].body.success = "false"
                 /\ req'[r].stored = <<>>
                 /\ uploads' = uploads]_vars

C19_Witness ==
    \E r \in Reqs :
        /\ req[r].route = "analyze" /\ req[r].pc = "done"
        /\ req[r].token = "valid" /\ req[r].userExists
        /\ req[r].hasFile /\ req[r].filename # <<>>
        /\ ~ExtensionInAllowList(req[r].filename)
        /\ req[r].status = 400 /\ req[r].body.success = "false"

\* C20: a POST /ocr/analyze whose caller is no authenticated user (token
\* missing or invalid, or the user of the token gone) is answered 401 whatever
\* else it holds, and no file is written for it.
C20_UnauthenticatedIs401 ==
    \A r \in Reqs :
        (/\ req[r].route = "analyze" /\ req[r].pc = "done"
         /\ (req[r].token # "valid" \/ ~req[r].userExists))
            => (req[r].status = 401 /\ req[r].stored = <<>>)

\* C21: every failure response of a receipt-analysis route has a body with
\* success = false, a message and an error_kind.
C21_StructuredFailureBody ==
    \A r \in Reqs :
        (req[r].pc = "done" /\ req[r].status >= 400) =>
            /\ req[r].body.success = "false"
            /\ req[r].body.message
            /\ req[r].body.error_kind

\* C22: a POST /ocr/analyze answered 200 has called the vision model for the
\* stored upload, its receipt has a category among Food, Transport, Utility
\* and Entertainment, and its source file name is the stored upload's name.
C22_SuccessComesFromThePipeline ==
    \A r \in Reqs :
        (req[r].route = "analyze" /\ req[r].pc = "done" /\ req[r].status = 200) =>
            /\ AnalyzeRequests # <<>>
            /\ req[r].body.categoria \in CategoryEnum
            /\ req[r].body.arquivo = Last(req[r].stored)
            /\ req[r].stored \in uploads

\* request r stored its upload for user uid at second t
StoredAt(r, t) ==
    /\ req[r].route = "analyze" /\ req[r].stored # <<>>
    /\ req[r].stored = UploadPath(UniqueFilename(req[r].filename, req[r].uid, t))

\* C23: two concurrent uploads stored by FileHandler.save_uploaded_file under
\* the same name are of the same user, the same second and the same sanitized
\* filename; uploads of different users never share a stored name.
C23_NamesUniquePerUser ==
    \A r1, r2 \in Reqs : \A t1, t2 \in 0..MaxClock :
        (r1 # r2 /\ StoredAt(r1, t1) /\ StoredAt(r2, t2)
           /\ req[r1].stored = req[r2].stored)
            => /\ req[r1].uid = req[r2].uid
               /\ t1 = t2
               /\ secure_filename(req[r1].filename) = secure_filename(req[r2].filename)

C23_Witness ==
    \E r1, r2 \in Reqs :
        /\ r1 # r2 /\ StoredAt(r1, 0) /\ StoredAt(r2, 0)
        /\ req[r1].uid # req[r2].uid
        /\ req[r1].filename = req[r2].filename
        /\ req[r1].stored # req[r2].stored
        /\ {req[r1].stored, req[r2].stored} \subseteq uploads

\* C27: the normalizer drops an item only when its total cannot be coerced to
\* a number: an item (a JSON object) with a numeric total is kept, with
\* quantity 1 when its quantidade is null, missing or not numeric and with the
\* total as unit price when its valor_unitario is.
C27_OnlyBadTotalsAreDropped ==
    (validated.state = "done" /\ validated.exc = "") =>
        \A i \in 1..Len(data.d.itens.items) :
            LET raw == data.d.itens.items[i]
                kept == {k \in 1..Len(validated.receipt.itens) :
                            validated.receipt.itens[k].src = i}
            IN  (raw.obj /\ ItemValor(raw).ok) =>
                    /\ kept # {}
                    /\ \A k \in kept :
                         LET item == validated.receipt.itens[k]
                         IN  /\ ~Int_(Get(raw.quantidade)).ok => item.quantidade = 1
                             /\ ~Float(Get(raw.valor_unitario)).ok
                                    => item.valor_unitario = item.valor_total

\* C28: every file a save function has written lies directly inside the
\* uploads directory and its name ends with one of the allowed extensions.
C28_WrittenFilesAreConfined ==
    \A p \in fs :
        /\ Len(p) = 2 /\ p[1] = UPLOAD_DIR
        /\ ExtensionInAllowList(p[2])


\* the finished requests of a route
Finished(route) == {r \in AuthReqs : auth[r].route = route /\ auth[r].pc = "done"}

\* a register request whose email format, password length or name length is
\* invalid
InvalidRegistration(rq) ==
    \/ ~validate_email(Strip(rq.email, WHITESPACE))
    \/ ~validate_password(rq.password)
    \/ Len(Strip(rq.name, WHITESPACE)) < 3

\* C24: a register request with invalid email format, password length or name
\* length is answered 400, one whose email already has an account is answered
\* 409, and neither creates a user or gets tokens.
C24_RegisterRejections ==
    \A r \in Finished("register") :
        /\ auth[r].schemaOk /\ InvalidRegistration(auth[r])
               => auth[r].status = 400 /\ auth[r].created = 0
                  /\ auth[r].tokens = NoTokens
        /\ auth[r].existing # 0
               => auth[r].status = 409 /\ auth[r].created = 0
                  /\ auth[r].tokens = NoTokens


\* a login request that reached the credential check: well-formed payload,
\* email and password not empty
ReachedCredentialCheck(rq) ==
    rq.schemaOk /\ Strip(rq.email, WHITESPACE) # <<>> /\ rq.password # <<>>

\* C25: a login with an email that has no account or with a wrong password is
\* answered 401 without tokens, and tokens are issued only to a request whose
\* password was verified against the stored hash.
C25_LoginRejections ==
    \A r \in Finished("login") :
        /\ ReachedCredentialCheck(auth[r]) /\ ~auth[r].verified
               => auth[r].status = 401 /\ auth[r].tokens = NoTokens
        /\ auth[r].tokens # NoTokens => auth[r].verified


\* C26: whatever the interleaving of concurrent register requests, no two
\* users have the same email after trimming and lowercasing, and a request
\* that passed the find_by_email check but finds the email taken at its
\* insert creates no user, gets no tokens and is answered with an error.
C26_OneUserPerEmail ==
    /\ [](\A u, v \in users :
              Strip(Lower(u.email), WHITESPACE) = Strip(Lower(v.email), WHITESPACE)
                  => u = v)
    /\ [][\A r \in AuthReqs :
              /\ auth[r].pc = "insert" /\ auth'[r].pc = "done"
              /\ find_by_email(users, auth[r].email) # NoRow
              => /\ users' = users
                 /\ auth'[r].created = 0
                 /\ auth'[r].tokens = NoTokens
                 /\ auth'[r].status >= 400]_vars

\* a request passed the check, lost the insert race and the other one won it
C26_Witness ==
    \E r, w \in AuthReqs :
        /\ r # w
        /\ {r, w} \subseteq Finished("register")
        /\ auth[r].schemaOk /\ ~InvalidRegistration(auth[r])
        /\ auth[r].existing = 0 /\ auth[r].created = 0
        /\ auth[w].created # 0
        /\ find_by_email(users, auth[r].email).id = auth[w].created


\* C29: after any sequence of create_user and update_user calls every stored
\* email is trimmed and lowercase, no two users share an email ignoring case,
\* and find_by_email with any casing of a stored email returns that user.
C29_StoredEmailsNormalised ==
    /\ \A u \in users : u.email = Strip(Lower(u.email), WHITESPACE)
    /\ \A u, v \in users : Lower(u.email) = Lower(v.email) => u = v
    /\ \A u \in users :
           \A e \in UserEmails \cup {u.email} :
               Lower(e) = Lower(u.email) => find_by_email(users, e) = u


\* the logins that were refused because the email has no account, and those
\* refused because the password is wrong
UnknownEmailLogins ==
    {r \in Finished("login") :
        ReachedCredentialCheck(auth[r]) /\ auth[r].existing = 0}
WrongPasswordLogins ==
    {r \in Finished("login") :
        ReachedCredentialCheck(auth[r]) /\ auth[r].existing # 0 /\ ~auth[r].verified}

\* what a response carries: status, message, user and tokens
ResponseOf(rq) == <<rq.status, rq.message, rq.user, rq.tokens>>

=============================================================================
